---------------------------- MODULE Spec2Model ----------------------------
(***************************************************************************)
(* Baseball Pick 4: the weekly settlement money flow.                      *)
(*                                                                         *)
(* The model covers payment intake (views.handle_payment_success), winner  *)
(* determination (services/winner_service.py) and the account ledger       *)
(* (services/balance_service.py).  Money is counted in cents.  A Decimal   *)
(* held in memory is exact; a DecimalField with decimal_places=2 is        *)
(* rounded half-even to the cent when the row is saved.                    *)
(***************************************************************************)
EXTENDS Integers, Sequences, FiniteSets, TLC

(***************************************************************************)
(* Bounds of the model.                                                    *)
(***************************************************************************)
MaxPayments == 2
MaxRuns == 2
MaxCommands == 2

(***************************************************************************)
(* Reference data: users, teams, memberships, weeks.                       *)
(***************************************************************************)
Users == {"u1", "u2", "u3"}
Teams == {"t1", "t2"}

\* TeamMember rows: u1 and u2 play on t1, u3 plays on t2.
TeamMember == {<<"u1", "t1">>, <<"u2", "t1">>, <<"u3", "t2">>}

\* Team.weekly_fee, one of WEEKLY_FEE_CHOICES (5.00 or 10.00), in cents.
weekly_fee == [t \in Teams |-> IF t = "t1" THEN 500 ELSE 1000]

\* Week rows by id: (week_number, season_year), unique together.
\* Weeks 1 to 3 are the last three weeks of season 2026; week 4 carries the
\* next week_number but belongs to season 2027.
Week == [w \in 1..4 |-> [week_number |-> w,
                         season_year |-> IF w = 4 THEN 2027 ELSE 2026]]
WeekIds == DOMAIN Week

PickCategory == {"2H", "HR", "SWP", "S"}

(***************************************************************************)
(* Decimal arithmetic.                                                     *)
(***************************************************************************)
\* The integer nearest to num/den (den > 0), ties to the even integer:
\* Decimal.quantize under the default ROUND_HALF_EVEN, which Django applies
\* to a DecimalField value when it is written to the database.
Quantize(num, den) ==
    LET q == num \div den
        r == num % den
    IN  IF 2 * r < den THEN q
        ELSE IF 2 * r > den THEN q + 1
        ELSE IF q % 2 = 0 THEN q ELSE q + 1

VARIABLES
    picks,                \* Pick rows
    payments,             \* WeeklyPayment rows, by <<user, team, week>>
    pools,                \* WeeklyPrizePool rows, by <<team, week>>
    standings,            \* UserStanding rows, by <<user, team, season_year>>
    total_lifetime_paid,  \* UserProfile.total_lifetime_paid, by user
    account_balance,      \* UserProfile.account_balance, by user
    low_balance_alert_sent, \* UserProfile.low_balance_alert_sent, by user
    transactions,         \* AccountTransaction rows in creation order
    opening_balance,      \* account_balance before the first transaction
    inflight,             \* requests whose database transaction is open
    row_locks,            \* rows written by an open transaction, with its owner
    handled,              \* amount of the committed payment events, by pool
    n_payments,           \* payment events handled so far
    n_runs,               \* settlement runs so far
    last,                 \* the last completed operation and the state before it
    weekly_results,       \* WeeklyResult rows, by <<week, player, category>>
    schedule,             \* the provider's games of each week's Saturday
    weeks,                \* Week.is_completed and Week.is_active, by week
    team_standings,       \* TeamStanding rows, by <<team, season_year>>
    payouts,              \* WeeklyPayout rows, by <<user, team, week>>
    member_status,        \* TeamMember.status, by <<user, team>>
    run,                  \* the management command in progress and its position
    stages                \* the settlement stages run so far, with their week

vars == <<picks, payments, pools, standings, total_lifetime_paid,
          account_balance, low_balance_alert_sent, transactions,
          opening_balance, inflight, row_locks, handled,
          n_payments, n_runs, last, weekly_results, schedule, weeks,
          team_standings, payouts, member_status, run, stages>>

\* The ledger tables, and the state of the open transactions.
ledgerVars == <<account_balance, low_balance_alert_sent, transactions,
                opening_balance>>
openVars == <<inflight, row_locks>>

\* The tables of result ingestion and standings, and the state of the
\* management commands.
resultVars == <<weekly_results, schedule, weeks, team_standings, payouts,
                member_status>>
cmdVars == <<run, stages>>

\* The record kept of an operation: its name, its arguments and outcome,
\* and the tables as they were before it.
Before(op, args) ==
    [op |-> op, args |-> args, pools |-> pools, standings |-> standings,
     account_balance |-> account_balance,
     low_balance_alert_sent |-> low_balance_alert_sent,
     transactions |-> transactions, picks |-> picks,
     weekly_results |-> weekly_results, weeks |-> weeks,
     team_standings |-> team_standings]


(***************************************************************************)
(* Rows and their defaults.                                                *)
(***************************************************************************)
\* A new WeeklyPrizePool row: the model's field defaults (per_pick_value
\* defaults to 1.00).
WeeklyPrizePool ==
    [total_collected |-> 0, rollover_from_previous |-> 0,
     weekly_pool_amount |-> 0, season_pot_contribution |-> 0,
     company_fee |-> 0, per_pick_value |-> 100, num_perfect_picks |-> 0,
     payout_per_winner |-> 0, is_scored |-> FALSE]

\* A new UserStanding row: the model's field defaults.
UserStanding ==
    [total_points |-> 0, total_picks_made |-> 0, total_picks_hit |-> 0,
     accuracy_percentage |-> 0, weeks_participated |-> 0, perfect_weeks |-> 0,
     highest_weekly_score |-> 0, current_streak |-> 0, longest_streak |-> 0,
     total_winnings |-> 0, total_paid |-> 0, net_profit |-> 0,
     team_rank |-> 0]

\* The Pick rows of one user for one week, by submission profile:
\*   "perfect"  4 picks, 4 hits      "miss1"  4 picks, 3 hits
\*   "short"    3 picks, 3 hits      "none"   no picks
PickRows(u, t, w, profile) ==
    LET cats == IF profile = "none" THEN {}
                ELSE IF profile = "short" THEN PickCategory \ {"S"}
                ELSE PickCategory
    IN  {[user |-> u, team |-> t, week |-> w, category |-> c,
          points_earned |-> IF profile = "miss1" /\ c = "S" THEN 0 ELSE 1]
         : c \in cats}

\* The profile of a user who is not perfect in a week.
OtherProfile(u) ==
    IF u = "u1" THEN "miss1" ELSE IF u = "u2" THEN "short" ELSE "none"

\* The weeks users have paid for and submitted picks in.
ScoredWeeks == {1, 2}

\* The sets of perfect pickers a week starts with: nobody, one user, one
\* user of each team, everybody.
PerfectSets == {{}, {"u1"}, {"u1", "u3"}, Users}

(***************************************************************************)
(* Payment intake: views.handle_payment_success.                           *)
(***************************************************************************)
\* WeeklyPrizePool.payment_count: completed payments of the team and week.
payment_count(pays, t, w) ==
    Cardinality({k \in DOMAIN pays :
                    /\ k[2] = t /\ k[3] = w
                    /\ pays[k].payment_status = "completed"})

\* Steps 1 to 4 of the handler on the payment and pool tables: the payment
\* row is created or marked completed, the pool row is created if absent,
\* and the 80/10/10 split of payment.amount is added to it.  The sums are
\* exact in memory (hundredths of a cent) and rounded when the pool is saved.
PaymentRow(pays, u, t, w, intent_amount) ==
    IF <<u, t, w>> \in DOMAIN pays
    THEN [pays[<<u, t, w>>] EXCEPT !.payment_status = "completed"]
    ELSE [amount |-> intent_amount, payment_status |-> "completed"]

\* The split with a 20% company fee taken from the weekly pool.
PoolAfterPayment_fee_from_pool(pls, pays1, t, w, payment_amount) ==
    LET weekly_pool == payment_amount * 70
        season_pot  == payment_amount * 10
        company_fee == payment_amount * 20
        prize_pool  == IF <<t, w>> \in DOMAIN pls THEN pls[<<t, w>>]
                       ELSE [WeeklyPrizePool EXCEPT
                               !.per_pick_value = Quantize(weekly_pool, 400)]
        total_mem   == prize_pool.total_collected + payment_amount
        weekly_mem  == prize_pool.weekly_pool_amount * 100 + weekly_pool
    IN  [prize_pool EXCEPT
           !.total_collected = total_mem,
           !.weekly_pool_amount = Quantize(weekly_mem, 100),
           !.season_pot_contribution = Quantize(@ * 100 + season_pot, 100),
           !.company_fee = Quantize(@ * 100 + company_fee, 100),
           !.per_pick_value =
               IF total_mem > 0
               THEN Quantize(weekly_mem, 400 * payment_count(pays1, t, w))
               ELSE @]

\* The pool row after the payment: 80/10/10.
PoolAfterPayment(pls, pays1, t, w, payment_amount) ==
    LET weekly_pool == payment_amount * 80
        season_pot  == payment_amount * 10
        company_fee == payment_amount * 10
        prize_pool  == IF <<t, w>> \in DOMAIN pls THEN pls[<<t, w>>]
                       ELSE [WeeklyPrizePool EXCEPT
                               !.per_pick_value = Quantize(weekly_pool, 400)]
        total_mem   == prize_pool.total_collected + payment_amount
        weekly_mem  == prize_pool.weekly_pool_amount * 100 + weekly_pool
    IN  [prize_pool EXCEPT
           !.total_collected = total_mem,
           !.weekly_pool_amount = Quantize(weekly_mem, 100),
           !.season_pot_contribution = Quantize(@ * 100 + season_pot, 100),
           !.company_fee = Quantize(@ * 100 + company_fee, 100),
           !.per_pick_value =
               IF total_mem > 0
               THEN Quantize(weekly_mem, 400 * payment_count(pays1, t, w))
               ELSE @]

HandlePaymentSuccess(u, t, w, intent_amount) ==
    /\ n_payments < MaxPayments
    /\ LET payment == PaymentRow(payments, u, t, w, intent_amount)
           pays1   == (<<u, t, w>> :> payment) @@ payments
       IN  /\ payments' = pays1
           /\ pools' = (<<t, w>> :>
                          PoolAfterPayment(pools, pays1, t, w, payment.amount))
                       @@ pools
           /\ total_lifetime_paid' =
                 [total_lifetime_paid EXCEPT ![u] = @ + payment.amount]
    /\ handled' = [handled EXCEPT ![<<t, w>>] = @ + intent_amount]
    /\ n_payments' = n_payments + 1
    /\ last' = Before("payment", [user |-> u, team |-> t, week |-> w])
    /\ UNCHANGED <<picks, standings, ledgerVars, openVars, n_runs,
                   resultVars, cmdVars>>

(***************************************************************************)
(* Winner determination: services/winner_service.py.                       *)
(***************************************************************************)
RECURSIVE SumPoints(_)
\* Sum('points_earned') over a set of Pick rows.
SumPoints(rows) ==
    IF rows = {} THEN 0
    ELSE LET r == CHOOSE x \in rows : TRUE
         IN  r.points_earned + SumPoints(rows \ {r})

\* get_perfect_pickers that looks at total_picks only.
get_perfect_pickers_any_four(w) ==
    LET rows(u, t) == {p \in picks : p.week = w /\ p.user = u /\ p.team = t}
        user_scores == {<<p.user, p.team>> : p \in {x \in picks : x.week = w}}
    IN  {g \in user_scores : Cardinality(rows(g[1], g[2])) = 4}

\* The (user, team) pairs with picks in the week whose picks number 4 and
\* whose points sum to 4.
get_perfect_pickers(w) ==
    LET rows(u, t) == {p \in picks : p.week = w /\ p.user = u /\ p.team = t}
        user_scores == {<<p.user, p.team>> : p \in {x \in picks : x.week = w}}
    IN  {g \in user_scores :
            /\ SumPoints(rows(g[1], g[2])) = 4
            /\ Cardinality(rows(g[1], g[2])) = 4}

\* The keys of the week's prize pools.
prize_pools(pls, w) == {k \in DOMAIN pls : k[2] = w}

RECURSIVE SumField(_, _, _)
\* Sum(field) over the pool rows with the given keys.
SumField(pls, keys, field) ==
    IF keys = {} THEN 0
    ELSE LET k == CHOOSE x \in keys : TRUE
         IN  pls[k][field] + SumField(pls, keys \ {k}, field)

\* total_weekly_pool + total_rollover of the week's pools.
total_available(pls, w) ==
    SumField(pls, prize_pools(pls, w), "weekly_pool_amount")
      + SumField(pls, prize_pools(pls, w), "rollover_from_previous")

\* update_user_standings that leaves net_profit as it was.
update_user_standings_stale_profit(stds, u, t, w, points_earned, num, den) ==
    LET key == <<u, t, Week[w].season_year>>
        standing == IF key \in DOMAIN stds THEN stds[key] ELSE UserStanding
        made == standing.total_picks_made + 4
        hit  == standing.total_picks_hit + points_earned
        streak == IF points_earned > 0 THEN standing.current_streak + 1 ELSE 0
    IN  (key :>
          [standing EXCEPT
             !.total_points = @ + points_earned,
             !.total_picks_made = made,
             !.total_picks_hit = hit,
             !.weeks_participated = @ + 1,
             !.perfect_weeks = IF points_earned = 4 THEN @ + 1 ELSE @,
             !.total_winnings = Quantize(@ * den + num, den),
             !.accuracy_percentage =
                 IF made > 0 THEN Quantize(hit * 10000, made) ELSE 0,
             !.current_streak = streak,
             !.longest_streak = IF streak > @ THEN streak ELSE @,
             !.highest_weekly_score =
                 IF points_earned > @ THEN points_earned ELSE @])
        @@ stds

\* update_user_standings for one winner.  winnings is the Decimal
\* num / den held in memory; total_winnings and net_profit are rounded to
\* the cent when the row is saved, accuracy_percentage to 1/100 percent.
update_user_standings(stds, u, t, w, points_earned, num, den) ==
    LET key == <<u, t, Week[w].season_year>>
        standing == IF key \in DOMAIN stds THEN stds[key] ELSE UserStanding
        made == standing.total_picks_made + 4
        hit  == standing.total_picks_hit + points_earned
        streak == IF points_earned > 0 THEN standing.current_streak + 1 ELSE 0
    IN  (key :>
          [standing EXCEPT
             !.total_points = @ + points_earned,
             !.total_picks_made = made,
             !.total_picks_hit = hit,
             !.weeks_participated = @ + 1,
             !.perfect_weeks = IF points_earned = 4 THEN @ + 1 ELSE @,
             !.total_winnings = Quantize(@ * den + num, den),
             !.accuracy_percentage =
                 IF made > 0 THEN Quantize(hit * 10000, made) ELSE 0,
             !.net_profit =
                 Quantize((standing.total_winnings - standing.total_paid) * den
                            + num, den),
             !.current_streak = streak,
             !.longest_streak = IF streak > @ THEN streak ELSE @,
             !.highest_weekly_score =
                 IF points_earned > @ THEN points_earned ELSE @])
        @@ stds

RECURSIVE UpdateWinners(_, _, _, _, _)
\* The loop over perfect_pickers in calculate_payouts.
UpdateWinners(stds, pickers, w, num, den) ==
    IF pickers = {} THEN stds
    ELSE LET p == CHOOSE x \in pickers : TRUE
         IN  UpdateWinners(update_user_standings(stds, p[1], p[2], w, 4, num, den),
                           pickers \ {p}, w, num, den)

\* payout_per_winner as stored on a pool row: total_available divided by the
\* number of winners, rounded to the cent.
PayoutPerWinner(total, n) == Quantize(total, n)

\* The pool rows after calculate_payouts; unchanged when the week has none.
PoolsAfterPayout(pls, w, perfect_pickers) ==
    LET total == total_available(pls, w)
        n     == Cardinality(perfect_pickers)
    IN  [k \in DOMAIN pls |->
           IF k[2] = w
           THEN [pls[k] EXCEPT
                   !.num_perfect_picks =
                       Cardinality({p \in perfect_pickers : p[2] = k[1]}),
                   !.payout_per_winner = PayoutPerWinner(total, n),
                   !.is_scored = TRUE,
                   !.rollover_from_previous = 0]
           ELSE pls[k]]

\* The standings after calculate_payouts when the exists() check on the
\* week's pools is left out: every perfect picker's standing is updated.
StandingsAfterPayout_unchecked(pls, stds, w, perfect_pickers) ==
    UpdateWinners(stds, perfect_pickers, w, total_available(pls, w),
                  Cardinality(perfect_pickers))

\* The standings after calculate_payouts: no pool, no standing update.
StandingsAfterPayout(pls, stds, w, perfect_pickers) ==
    IF prize_pools(pls, w) = {} THEN stds
    ELSE UpdateWinners(stds, perfect_pickers, w, total_available(pls, w),
                       Cardinality(perfect_pickers))

\* What determine_weekly_winners returns on the payout path: self.errors and
\* the two amounts of calculate_payouts.  The amounts are Decimals held in
\* memory, written here as the fractions num / den they stand for.
payout_results(pls, w, perfect_pickers) ==
    LET total == total_available(pls, w)
        n     == Cardinality(perfect_pickers)
    IN  IF prize_pools(pls, w) = {}
        THEN [success |-> TRUE,
              errors |-> <<"No prize pools found for this week">>,
              payout_per_winner |-> [num |-> 0, den |-> 1],
              total_paid_out |-> [num |-> 0, den |-> 1]]
        ELSE [success |-> TRUE,
              errors |-> <<>>,
              payout_per_winner |-> [num |-> total, den |-> n],
              total_paid_out |-> [num |-> total * n, den |-> n]]

\* next_week without the season_year filter.
next_week_any_season(w) ==
    {x \in WeekIds : Week[x].week_number = Week[w].week_number + 1}

\* Week.objects.filter(season_year=..., week_number=week_number + 1)
next_week(w) ==
    {x \in WeekIds : /\ Week[x].season_year = Week[w].season_year
                     /\ Week[x].week_number = Week[w].week_number + 1}

\* rollover_amount without the rollover carried in from the week before.
rollover_amount_weekly_only(prize_pool) == prize_pool.weekly_pool_amount

\* weekly_pool_amount + rollover_from_previous of one pool.
rollover_amount(prize_pool) ==
    prize_pool.weekly_pool_amount + prize_pool.rollover_from_previous

\* The end of one iteration of handle_rollover: scored, no winners.
MarkNoWinners(prize_pool) ==
    [prize_pool EXCEPT !.num_perfect_picks = 0, !.payout_per_winner = 0,
                       !.is_scored = TRUE, !.rollover_from_previous = 0]

\* One iteration of the loop of handle_rollover, for team t's pool. fails:
\* the database raised inside the try block (get_or_create or the save of
\* next week's pool); the except clause records the error and continues
\* with the next pool.
RolloverPool(pls, t, w, fails) ==
    LET prize_pool == pls[<<t, w>>]
        amount == rollover_amount(prize_pool)
        nw == next_week(w)
    IN  IF nw # {}
        THEN LET n == CHOOSE x \in nw : TRUE
                 moved == IF <<t, n>> \in DOMAIN pls
                          THEN [pls EXCEPT
                                  ![<<t, n>>].rollover_from_previous = @ + amount]
                          ELSE (<<t, n>> :>
                                  [WeeklyPrizePool EXCEPT
                                     !.rollover_from_previous = amount])
                               @@ pls
             IN  IF fails THEN pls
                 ELSE [moved EXCEPT ![<<t, w>>] = MarkNoWinners(prize_pool)]
        ELSE [pls EXCEPT ![<<t, w>>] =
                MarkNoWinners([prize_pool EXCEPT
                                 !.season_pot_contribution = @ + amount])]

RECURSIVE handle_rollover(_, _, _, _)
\* The loop of handle_rollover over the week's pools (teams still to do).
handle_rollover(pls, teams, w, failing) ==
    IF teams = {} THEN pls
    ELSE LET t == CHOOSE x \in teams : TRUE
         IN  handle_rollover(RolloverPool(pls, t, w, t \in failing),
                             teams \ {t}, w, failing)

\* determine_weekly_winners(week): the rollover path when nobody is perfect,
\* the payout path otherwise.  Each path runs in one database transaction
\* (@transaction.atomic).  failing: the teams whose rollover iteration raised
\* inside the try block.  aborted: an exception left the atomic block, or a
\* failed Model.save() marked the transaction for rollback, so nothing of
\* the run is committed.
determine_weekly_winners(w, failing, aborted) ==
    /\ n_runs < MaxRuns
    /\ LET perfect_pickers == get_perfect_pickers(w)
       IN  /\ IF aborted
              THEN UNCHANGED <<pools, standings>>
              ELSE IF perfect_pickers = {}
              THEN /\ pools' = handle_rollover(
                                  pools, {k[1] : k \in prize_pools(pools, w)},
                                  w, failing)
                   /\ UNCHANGED standings
              ELSE /\ pools' = PoolsAfterPayout(pools, w, perfect_pickers)
                   /\ standings' = StandingsAfterPayout(pools, standings, w,
                                                        perfect_pickers)
           /\ last' = Before(IF perfect_pickers = {} THEN "rollover"
                              ELSE "winners",
                              [week |-> w, perfect |-> perfect_pickers,
                               failing |-> failing, aborted |-> aborted,
                               returned |-> IF perfect_pickers = {} \/ aborted
                                            THEN <<>>
                                            ELSE payout_results(
                                                   pools, w, perfect_pickers)])
    /\ n_runs' = n_runs + 1
    /\ UNCHANGED <<picks, payments, total_lifetime_paid, ledgerVars, openVars,
                   handled, n_payments,
                   resultVars>>

(***************************************************************************)
(* The settlement system: payments and settlement runs, one at a time.     *)
(***************************************************************************)
NoOp == [op |-> "none", args |-> <<>>, pools |-> <<>>, standings |-> <<>>,
         account_balance |-> <<>>, low_balance_alert_sent |-> <<>>,
         transactions |-> <<>>, picks |-> {}, weekly_results |-> <<>>,
         weeks |-> <<>>, team_standings |-> <<>>]

\* No results ingested, no week completed or active, no team standing, no
\* management command running.
QuietSettlement ==
    /\ weekly_results = <<>>
    /\ schedule = <<>>
    /\ payouts = <<>>
    /\ member_status = [m \in TeamMember |-> "active"]
    /\ weeks = [w \in WeekIds |-> [is_completed |-> FALSE, is_active |-> FALSE]]
    /\ team_standings = <<>>
    /\ run = [pc |-> "idle"]
    /\ stages = <<>>

\* The keys a WeeklyPrizePool row can have.
PoolKeys == Teams \X WeekIds

\* The teams whose rollover can fail in a run: those with a pool in the week.
FailingSets(w) == SUBSET {k[1] : k \in prize_pools(pools, w)}

Init ==
    /\ \E perfect_in \in [ScoredWeeks -> PerfectSets] :
          picks = UNION {PickRows(m[1], m[2], w,
                                  IF m[1] \in perfect_in[w] THEN "perfect"
                                  ELSE OtherProfile(m[1]))
                         : m \in TeamMember, w \in ScoredWeeks}
    /\ payments = <<>>
    /\ pools = <<>>
    /\ standings = <<>>
    /\ total_lifetime_paid = [u \in Users |-> 0]
    /\ account_balance = [u \in Users |-> 0]
    /\ low_balance_alert_sent = [u \in Users |-> FALSE]
    /\ transactions = <<>>
    /\ opening_balance = account_balance
    /\ inflight = <<>>
    /\ row_locks = <<>>
    /\ handled = [k \in PoolKeys |-> 0]
    /\ n_payments = 0
    /\ n_runs = 0
    /\ last = NoOp
    /\ QuietSettlement

Payment ==
    \E m \in TeamMember, w \in ScoredWeeks :
        HandlePaymentSuccess(m[1], m[2], w, weekly_fee[m[2]])

Settle ==
    /\ \E w \in WeekIds : determine_weekly_winners(w, {}, FALSE)
    /\ UNCHANGED cmdVars

Next == Payment \/ Settle

Spec == Init /\ [][Next]_vars

\* The same system when the database may raise during a rollover.
SettleWithErrors ==
    /\ \E w \in WeekIds : \E failing \in FailingSets(w), aborted \in BOOLEAN :
          determine_weekly_winners(w, failing, aborted)
    /\ UNCHANGED cmdVars

NextWithErrors == Payment \/ SettleWithErrors

SpecWithErrors == Init /\ [][NextWithErrors]_vars

(***************************************************************************)
(* The account ledger: services/balance_service.py.                        *)
(***************************************************************************)
\* UserProfile.low_balance_threshold (default 15.00) and the minimum
\* withdrawal (5.00), in cents.
low_balance_threshold == 1500
MinimumWithdrawal == 500

\* Most AccountTransaction rows a run of the ledger creates.
MaxTransactions == 3

\* The balances an account starts with and the amounts of the calls, in
\* cents; the users whose accounts are operated on.
StartBalances == {0, 2000}
Amounts == {400, 500, 1000}
LedgerUsers == {"u1", "u2"}

\* An AccountTransaction row.
AccountTransaction(u, type, amount, before, after, status) ==
    [user |-> u, transaction_type |-> type, amount |-> amount,
     balance_before |-> before, balance_after |-> after, status |-> status]

\* The outcome of a call that changed nothing.
Refused(profile, result) ==
    [profile |-> profile, rows |-> <<>>, result |-> result]

\* add_to_balance that leaves the alert flag as it was.
add_to_balance_keep_alert(profile, u, amount) ==
    LET balance_before == profile.account_balance
        balance_after  == balance_before + amount
    IN  [profile |-> [profile EXCEPT !.account_balance = balance_after],
         rows |-> <<AccountTransaction(u, "deposit", amount, balance_before,
                                       balance_after, "completed")>>,
         result |-> "transaction"]

\* add_to_balance on the profile row as read: the row to save, the
\* transaction row to insert, and what the call returns.
add_to_balance(profile, u, amount) ==
    LET balance_before == profile.account_balance
        balance_after  == balance_before + amount
    IN  [profile |-> [account_balance |-> balance_after,
                      low_balance_alert_sent |-> FALSE],
         rows |-> <<AccountTransaction(u, "deposit", amount, balance_before,
                                       balance_after, "completed")>>,
         result |-> "transaction"]

\* deduct_from_balance that captures balance_before after the deduction.
deduct_from_balance_late_capture(profile, u, amount) ==
    IF profile.account_balance < amount THEN Refused(profile, "None")
    ELSE LET balance_after == profile.account_balance - amount
         IN  [profile |-> [profile EXCEPT !.account_balance = balance_after],
              rows |-> <<AccountTransaction(u, "payment", amount, balance_after,
                                            balance_after, "completed")>>,
              result |-> "transaction"]

\* deduct_from_balance without the insufficient-funds return.
deduct_from_balance_overdraw(profile, u, amount) ==
    LET balance_before == profile.account_balance
        balance_after  == balance_before - amount
    IN  [profile |-> [account_balance |-> balance_after,
                      low_balance_alert_sent |->
                          (balance_after < low_balance_threshold)
                          \/ profile.low_balance_alert_sent],
         rows |-> <<AccountTransaction(u, "payment", amount, balance_before,
                                       balance_after, "completed")>>,
         result |-> "transaction"]

\* deduct_from_balance that raises the alert at the threshold already.
deduct_from_balance_alert_at_threshold(profile, u, amount) ==
    IF profile.account_balance < amount THEN Refused(profile, "None")
    ELSE LET balance_before == profile.account_balance
             balance_after  == balance_before - amount
         IN  [profile |-> [account_balance |-> balance_after,
                           low_balance_alert_sent |->
                               (balance_after <= low_balance_threshold)
                               \/ profile.low_balance_alert_sent],
              rows |-> <<AccountTransaction(u, "payment", amount,
                                            balance_before, balance_after,
                                            "completed")>>,
              result |-> "transaction"]

\* deduct_from_balance on the profile row as read.
deduct_from_balance(profile, u, amount) ==
    IF profile.account_balance < amount THEN Refused(profile, "None")
    ELSE LET balance_before == profile.account_balance
             balance_after  == balance_before - amount
             alert == /\ balance_after < low_balance_threshold
                      /\ ~profile.low_balance_alert_sent
         IN  [profile |-> [account_balance |-> balance_after,
                           low_balance_alert_sent |->
                               IF alert THEN TRUE
                               ELSE profile.low_balance_alert_sent],
              rows |-> <<AccountTransaction(u, "payment", amount,
                                            balance_before, balance_after,
                                            "completed")>>,
              result |-> "transaction"]

\* process_withdrawal without the minimum amount.
process_withdrawal_no_minimum(profile, u, amount) ==
    IF profile.account_balance < amount
    THEN Refused(profile, "Insufficient funds")
    ELSE LET balance_before == profile.account_balance
             balance_after  == balance_before - amount
         IN  [profile |-> [profile EXCEPT !.account_balance = balance_after],
              rows |-> <<AccountTransaction(u, "withdrawal", amount,
                                            balance_before, balance_after,
                                            "pending")>>,
              result |-> "transaction"]

\* process_withdrawal without the insufficient-funds return.
process_withdrawal_overdraw(profile, u, amount) ==
    IF amount < MinimumWithdrawal
    THEN Refused(profile, "Minimum withdrawal amount")
    ELSE LET balance_before == profile.account_balance
             balance_after  == balance_before - amount
         IN  [profile |-> [profile EXCEPT !.account_balance = balance_after],
              rows |-> <<AccountTransaction(u, "withdrawal", amount,
                                            balance_before, balance_after,
                                            "pending")>>,
              result |-> "transaction"]

\* process_withdrawal on the profile row as read.
process_withdrawal(profile, u, amount) ==
    IF profile.account_balance < amount
    THEN Refused(profile, "Insufficient funds")
    ELSE IF amount < MinimumWithdrawal
    THEN Refused(profile, "Minimum withdrawal amount")
    ELSE LET balance_before == profile.account_balance
             balance_after  == balance_before - amount
         IN  [profile |-> [profile EXCEPT !.account_balance = balance_after],
              rows |-> <<AccountTransaction(u, "withdrawal", amount,
                                            balance_before, balance_after,
                                            "pending")>>,
              result |-> "transaction"]

BalanceOps == {"add_to_balance", "deduct_from_balance", "process_withdrawal"}

\* The call named op.
BalanceService(op, profile, u, amount) ==
    CASE op = "add_to_balance" -> add_to_balance(profile, u, amount)
      [] op = "deduct_from_balance" -> deduct_from_balance(profile, u, amount)
      [] op = "process_withdrawal" -> process_withdrawal(profile, u, amount)

\* user.profile: the committed UserProfile row.
profile(u) == [account_balance |-> account_balance[u],
               low_balance_alert_sent |-> low_balance_alert_sent[u]]

\* One call of the service, run alone from start to commit.
BalanceCall(op, u, amount) ==
    /\ Len(transactions) < MaxTransactions
    /\ LET out == BalanceService(op, profile(u), u, amount)
       IN  /\ account_balance' =
                 [account_balance EXCEPT ![u] = out.profile.account_balance]
           /\ low_balance_alert_sent' =
                 [low_balance_alert_sent EXCEPT
                    ![u] = out.profile.low_balance_alert_sent]
           /\ transactions' = transactions \o out.rows
           /\ last' = Before(op, [user |-> u, amount |-> amount,
                                  result |-> out.result])
    /\ UNCHANGED <<picks, payments, pools, standings, total_lifetime_paid,
                   opening_balance, openVars, handled, n_payments, n_runs,
                   resultVars, cmdVars>>

AddToBalance ==
    \E u \in LedgerUsers, amount \in Amounts :
        BalanceCall("add_to_balance", u, amount)

DeductFromBalance ==
    \E u \in LedgerUsers, amount \in Amounts :
        BalanceCall("deduct_from_balance", u, amount)

ProcessWithdrawal ==
    \E u \in LedgerUsers, amount \in Amounts :
        BalanceCall("process_withdrawal", u, amount)

\* No picks, payments, pools or standings.
QuietTables ==
    /\ picks = {}
    /\ payments = <<>>
    /\ pools = <<>>
    /\ standings = <<>>
    /\ total_lifetime_paid = [u \in Users |-> 0]
    /\ handled = [k \in PoolKeys |-> 0]
    /\ n_payments = 0
    /\ n_runs = 0
    /\ last = NoOp

InitLedger ==
    /\ QuietTables
    /\ QuietSettlement
    /\ inflight = <<>>
    /\ row_locks = <<>>
    /\ account_balance \in
          {[u \in Users |-> IF u \in LedgerUsers THEN b[u] ELSE 0]
             : b \in [LedgerUsers -> StartBalances]}
    /\ low_balance_alert_sent = [u \in Users |-> FALSE]
    /\ transactions = <<>>
    /\ opening_balance = account_balance

NextLedger == AddToBalance \/ DeductFromBalance \/ ProcessWithdrawal

\* The ledger when calls run one after another.
SpecLedger == InitLedger /\ [][NextLedger]_vars

(***************************************************************************)
(* The ledger under concurrent calls.  Each call runs in its own database  *)
(* transaction (@transaction.atomic) at the MySQL backend's READ COMMITTED *)
(* level: user.profile is a plain SELECT that returns the committed row,   *)
(* profile.save() is an UPDATE of the whole row that takes the row lock    *)
(* and holds it to the commit, and nothing the transaction wrote is        *)
(* visible to the others before the commit.                                *)
(***************************************************************************)
\* The two calls in flight and the account they work on.
ConcurrentCalls == {1, 2}
SharedUser == "u1"

\* The lock on a UserProfile row.
ProfileRow(u) == <<"user_profiles", u>>

\* Another open transaction holds the lock of the row.
LockedByOther(row, c) == row \in DOMAIN row_locks /\ row_locks[row] # c

\* profile = user.profile, and everything the call computes from the row it
\* read; a refused call returns at once.
ReadProfile(c) ==
    /\ inflight[c].pc = "start"
    /\ LET call == inflight[c]
           out  == BalanceService(call.op, profile(call.user), call.user,
                                  call.amount)
       IN  inflight' = [inflight EXCEPT
                          ![c].out = out,
                          ![c].pc = IF out.rows = <<>> THEN "done" ELSE "save"]
    /\ UNCHANGED <<picks, payments, pools, standings, total_lifetime_paid,
                   ledgerVars, row_locks, handled, n_payments, n_runs, last,
                   resultVars, cmdVars>>

\* profile.save(): waits for the row lock, then writes the values computed
\* from the row as it was read.
SaveProfile(c) ==
    /\ inflight[c].pc = "save"
    /\ ~LockedByOther(ProfileRow(inflight[c].user), c)
    /\ row_locks' = (ProfileRow(inflight[c].user) :> c) @@ row_locks
    /\ inflight' = [inflight EXCEPT ![c].pc = "insert"]
    /\ UNCHANGED <<picks, payments, pools, standings, total_lifetime_paid,
                   ledgerVars, handled, n_payments, n_runs, last,
                   resultVars, cmdVars>>

\* AccountTransaction.objects.create(...): the row is inserted while the
\* profile lock is held, so rows are created in commit order.
CreateTransaction(c) ==
    /\ inflight[c].pc = "insert"
    /\ inflight' = [inflight EXCEPT ![c].pc = "commit"]
    /\ UNCHANGED <<picks, payments, pools, standings, total_lifetime_paid,
                   ledgerVars, row_locks, handled, n_payments, n_runs, last,
                   resultVars, cmdVars>>

\* The atomic block ends: the saved profile and the inserted row become
\* visible and the row lock is released.
CommitCall(c) ==
    /\ inflight[c].pc = "commit"
    /\ LET call == inflight[c]
       IN  /\ account_balance' =
                 [account_balance EXCEPT
                    ![call.user] = call.out.profile.account_balance]
           /\ low_balance_alert_sent' =
                 [low_balance_alert_sent EXCEPT
                    ![call.user] = call.out.profile.low_balance_alert_sent]
           /\ transactions' = transactions \o call.out.rows
           /\ row_locks' = [r \in DOMAIN row_locks \ {ProfileRow(call.user)}
                              |-> row_locks[r]]
    /\ inflight' = [inflight EXCEPT ![c].pc = "done"]
    /\ UNCHANGED <<picks, payments, pools, standings, total_lifetime_paid,
                   opening_balance, handled, n_payments, n_runs, last,
                   resultVars, cmdVars>>

\* Two calls on the same account are about to start.
InitConcurrent ==
    /\ QuietTables
    /\ QuietSettlement
    /\ \E b \in StartBalances :
          account_balance = [u \in Users |-> IF u = SharedUser THEN b ELSE 0]
    /\ low_balance_alert_sent = [u \in Users |-> FALSE]
    /\ transactions = <<>>
    /\ opening_balance = account_balance
    /\ inflight \in [ConcurrentCalls ->
                       {[op |-> op, user |-> SharedUser, amount |-> a,
                         pc |-> "start", out |-> Refused(<<>>, "pending")]
                          : op \in BalanceOps, a \in Amounts}]
    /\ row_locks = <<>>

NextConcurrent ==
    \E c \in ConcurrentCalls :
        \/ ReadProfile(c)
        \/ SaveProfile(c)
        \/ CreateTransaction(c)
        \/ CommitCall(c)

SpecConcurrent == InitConcurrent /\ [][NextConcurrent]_vars

(***************************************************************************)
(* Payment intake under concurrent webhook deliveries.  Each handler runs  *)
(* steps 1 to 5 of handle_payment_success inside one transaction.atomic()  *)
(* block at READ COMMITTED; prize_pool is a Python object loaded by        *)
(* get_or_create, changed in memory and written back whole by save().      *)
(***************************************************************************)
\* The handlers in flight: one payment intent of each member of team t1 for
\* the same week.
PaymentCalls == {1, 2}
PaymentTeam == "t1"
PaymentWeek == 2
PaymentUser(c) == IF c = 1 THEN "u1" ELSE "u2"

\* The lock on a WeeklyPrizePool row (its unique key team, week).
PrizePoolRow(t, w) == <<"weekly_prize_pools", t, w>>

\* Step 1: WeeklyPayment.objects.get_or_create(...), completed.  The key
\* holds the user, so two users' handlers never meet on a payment row.
GetOrCreatePayment(c) ==
    /\ inflight[c].pc = "payment"
    /\ LET call == inflight[c]
       IN  inflight' = [inflight EXCEPT
                          ![c].payment = PaymentRow(payments, call.user,
                                                    call.team, call.week,
                                                    call.intent_amount),
                          ![c].pc = "get_pool"]
    /\ UNCHANGED <<picks, payments, pools, standings, total_lifetime_paid,
                   ledgerVars, row_locks, handled, n_payments, n_runs, last,
                   resultVars, cmdVars>>

\* Step 3, the get of get_or_create: the committed pool row, if there is one.
GetPrizePool(c) ==
    /\ inflight[c].pc = "get_pool"
    /\ LET k == <<inflight[c].team, inflight[c].week>>
       IN  inflight' =
              IF k \in DOMAIN pools
              THEN [inflight EXCEPT ![c].prize_pool = (k :> pools[k]),
                                    ![c].pc = "add"]
              ELSE [inflight EXCEPT ![c].pc = "create_pool"]
    /\ UNCHANGED <<picks, payments, pools, standings, total_lifetime_paid,
                   ledgerVars, row_locks, handled, n_payments, n_runs, last,
                   resultVars, cmdVars>>

\* Step 3, the create of get_or_create: the INSERT waits for another
\* transaction's uncommitted insert of the same key; if the row has been
\* committed meanwhile the INSERT raises IntegrityError and get_or_create
\* returns the row it then reads; otherwise the row is inserted with the
\* defaults and stays locked until the commit.
CreatePrizePool(c) ==
    /\ inflight[c].pc = "create_pool"
    /\ LET k   == <<inflight[c].team, inflight[c].week>>
           row == PrizePoolRow(inflight[c].team, inflight[c].week)
       IN  /\ ~LockedByOther(row, c)
           /\ IF k \in DOMAIN pools
              THEN /\ inflight' = [inflight EXCEPT
                                     ![c].prize_pool = (k :> pools[k]),
                                     ![c].pc = "add"]
                   /\ UNCHANGED row_locks
              ELSE /\ inflight' = [inflight EXCEPT ![c].prize_pool = <<>>,
                                                   ![c].pc = "add"]
                   /\ row_locks' = (row :> c) @@ row_locks
    /\ UNCHANGED <<picks, payments, pools, standings, total_lifetime_paid,
                   ledgerVars, handled, n_payments, n_runs, last,
                   resultVars, cmdVars>>

\* Step 4 up to the save: the split is added to the object in memory and
\* payment_count counts the completed payments this transaction can see.
AddToPrizePool(c) ==
    /\ inflight[c].pc = "add"
    /\ LET call  == inflight[c]
           k     == <<call.team, call.week>>
           pays1 == (<<call.user, call.team, call.week>> :> call.payment)
                    @@ payments
       IN  inflight' = [inflight EXCEPT
                          ![c].prize_pool =
                              (k :> PoolAfterPayment(call.prize_pool, pays1,
                                                     call.team, call.week,
                                                     call.payment.amount)),
                          ![c].pc = "save_pool"]
    /\ UNCHANGED <<picks, payments, pools, standings, total_lifetime_paid,
                   ledgerVars, row_locks, handled, n_payments, n_runs, last,
                   resultVars, cmdVars>>

\* prize_pool.save(): an UPDATE of every field of the row, under its lock.
SavePrizePool(c) ==
    /\ inflight[c].pc = "save_pool"
    /\ LET row == PrizePoolRow(inflight[c].team, inflight[c].week)
       IN  /\ ~LockedByOther(row, c)
           /\ row_locks' = (row :> c) @@ row_locks
    /\ inflight' = [inflight EXCEPT ![c].pc = "profile"]
    /\ UNCHANGED <<picks, payments, pools, standings, total_lifetime_paid,
                   ledgerVars, handled, n_payments, n_runs, last,
                   resultVars, cmdVars>>

\* Step 5: total_lifetime_paid of the paying user's own profile.
UpdateLifetimePaid(c) ==
    /\ inflight[c].pc = "profile"
    /\ inflight' = [inflight EXCEPT
                      ![c].total_lifetime_paid =
                          total_lifetime_paid[inflight[c].user]
                          + inflight[c].payment.amount,
                      ![c].pc = "commit"]
    /\ UNCHANGED <<picks, payments, pools, standings, total_lifetime_paid,
                   ledgerVars, row_locks, handled, n_payments, n_runs, last,
                   resultVars, cmdVars>>

\* The atomic block ends: the payment, the pool as saved and the profile
\* become visible, the pool's lock is released, the handler returns True.
CommitPayment(c) ==
    /\ inflight[c].pc = "commit"
    /\ LET call == inflight[c]
           k    == <<call.team, call.week>>
       IN  /\ payments' = (<<call.user, call.team, call.week>> :> call.payment)
                          @@ payments
           /\ pools' = call.prize_pool @@ pools
           /\ total_lifetime_paid' =
                 [total_lifetime_paid EXCEPT
                    ![call.user] = call.total_lifetime_paid]
           /\ handled' = [handled EXCEPT ![k] = @ + call.payment.amount]
           /\ row_locks' =
                 [r \in DOMAIN row_locks \ {PrizePoolRow(call.team, call.week)}
                    |-> row_locks[r]]
    /\ inflight' = [inflight EXCEPT ![c].pc = "done"]
    /\ UNCHANGED <<picks, standings, ledgerVars, n_payments, n_runs, last,
                   resultVars, cmdVars>>

\* Week 1 has been paid for by u1 and is either still open or settled with
\* nobody perfect, its pool rolled into a new pool of the next week; the
\* payment intents of u1 and u2 for the next week have both succeeded.
InitPayments ==
    /\ picks = {}
    /\ standings = <<>>
    /\ LET t     == PaymentTeam
           fee   == weekly_fee[t]
           paid  == (<<"u1", t, 1>> :> PaymentRow(<<>>, "u1", t, 1, fee))
           open  == (<<t, 1>> :> PoolAfterPayment(<<>>, paid, t, 1, fee))
       IN  /\ payments = paid
           /\ pools \in {open, handle_rollover(open, {t}, 1, {})}
           /\ total_lifetime_paid = [u \in Users |-> IF u = "u1" THEN fee ELSE 0]
           /\ handled = [k \in PoolKeys |-> IF k = <<t, 1>> THEN fee ELSE 0]
    /\ account_balance = [u \in Users |-> 0]
    /\ low_balance_alert_sent = [u \in Users |-> FALSE]
    /\ transactions = <<>>
    /\ opening_balance = account_balance
    /\ inflight = [c \in PaymentCalls |->
                     [user |-> PaymentUser(c), team |-> PaymentTeam,
                      week |-> PaymentWeek,
                      intent_amount |-> weekly_fee[PaymentTeam],
                      pc |-> "payment", payment |-> <<>>, prize_pool |-> <<>>,
                      total_lifetime_paid |-> 0]]
    /\ row_locks = <<>>
    /\ n_payments = 1
    /\ n_runs = 0
    /\ last = NoOp
    /\ QuietSettlement

NextPayments ==
    \E c \in PaymentCalls :
        \/ GetOrCreatePayment(c)
        \/ GetPrizePool(c)
        \/ CreatePrizePool(c)
        \/ AddToPrizePool(c)
        \/ SavePrizePool(c)
        \/ UpdateLifetimePaid(c)
        \/ CommitPayment(c)

SpecPayments == InitPayments /\ [][NextPayments]_vars

(***************************************************************************)
(* Result ingestion: services/mlb_results_service.py, the service every    *)
(* command imports.  Stat values are whole numbers (hits, home runs,       *)
(* saves, 1.0 or 0.0 for a starter's win).                                 *)
(***************************************************************************)
\* The MLBPlayer rows: p1 bats, p2 pitches, p3 does not play.  The provider
\* also reports p9, who has no MLBPlayer row.
MLBPlayer == {"p1", "p2", "p3"}

\* The provider's games: a schedule entry (statsapi.schedule) and the box
\* score of the game (statsapi.boxscore_data).
\*   g1  played as scheduled          g2  game 2 of a doubleheader
\*   g3  postponed                    g4  a makeup game played that day
Games ==
    [g1 |-> [status |-> "Final", game_number |-> 1, rescheduled_from |-> FALSE,
             batting |-> <<[personId |-> "p1", h |-> 1, hr |-> 0],
                           [personId |-> "p9", h |-> 3, hr |-> 1]>>,
             pitchers |-> <<[personId |-> "p2", note |-> "W", sv |-> 0,
                             battingOrder |-> "1"]>>],
     g2 |-> [status |-> "Final", game_number |-> 2, rescheduled_from |-> FALSE,
             batting |-> <<[personId |-> "p1", h |-> 2, hr |-> 1]>>,
             pitchers |-> <<[personId |-> "p2", note |-> "S", sv |-> 1,
                             battingOrder |-> ""]>>],
     g3 |-> [status |-> "Postponed", game_number |-> 1,
             rescheduled_from |-> FALSE, batting |-> <<>>, pitchers |-> <<>>],
     g4 |-> [status |-> "Final", game_number |-> 1, rescheduled_from |-> TRUE,
             batting |-> <<[personId |-> "p1", h |-> 0, hr |-> 0]>>,
             pitchers |-> <<[personId |-> "p2", note |-> "", sv |-> 1,
                             battingOrder |-> ""]>>]]

\* The schedules the provider may return for a Saturday.
Schedules == {<<"g1">>, <<"g1", "g2">>, <<"g3", "g2", "g1">>, <<"g1", "g4">>}

\* _check_achievement(category, stat_value)
check_achievement(category, stat_value) ==
    IF category = "2H" THEN stat_value >= 2
    ELSE IF category \in {"HR", "SWP", "S"} THEN stat_value >= 1
    ELSE FALSE

\* _create_or_update_result: get_or_create on (week, player, category); an
\* existing row has the value added to it and achieved evaluated on the sum.
create_or_update_result(results, w, player, category, achieved, value, gid) ==
    LET key == <<w, player, category>>
    IN  IF key \notin DOMAIN results
        THEN (key :> [achieved |-> achieved, stat_value |-> value,
                      game_id |-> <<gid>>]) @@ results
        ELSE LET sum == results[key].stat_value + value
             IN  [results EXCEPT
                    ![key] = [achieved |-> check_achievement(category, sum),
                              stat_value |-> sum,
                              game_id |-> Append(@.game_id, gid)]]

RECURSIVE process_batting_stats(_, _, _, _, _)
\* _process_batting_stats: the batting lines from index i on.
process_batting_stats(results, w, game_id, batting, i) ==
    IF i > Len(batting) THEN results
    ELSE LET player_stats == batting[i]
             player == player_stats.personId
             hits == player_stats.h
             home_runs == player_stats.hr
             with_2h == create_or_update_result(results, w, player, "2H",
                                                hits >= 2, hits, game_id)
             with_hr == create_or_update_result(with_2h, w, player, "HR",
                                                home_runs >= 1, home_runs,
                                                game_id)
         IN  process_batting_stats(
                 IF player \in MLBPlayer /\ hits > 0 THEN with_hr ELSE results,
                 w, game_id, batting, i + 1)

RECURSIVE process_pitching_stats(_, _, _, _, _)
\* _process_pitching_stats: the pitching lines from index i on.  The notes
\* the provider sends here are "W", "S" or empty, so 'W' in decision is
\* note = "W".
process_pitching_stats(results, w, game_id, pitching, i) ==
    IF i > Len(pitching) THEN results
    ELSE LET pitcher_stats == pitching[i]
             pitcher == pitcher_stats.personId
             saves == pitcher_stats.sv
             is_starter == pitcher_stats.battingOrder = "1"
             got_win == pitcher_stats.note = "W"
             with_swp == create_or_update_result(
                             results, w, pitcher, "SWP", is_starter /\ got_win,
                             IF is_starter /\ got_win THEN 1 ELSE 0, game_id)
             with_s == create_or_update_result(with_swp, w, pitcher, "S",
                                               saves >= 1, saves, game_id)
         IN  process_pitching_stats(
                 IF pitcher \in MLBPlayer THEN with_s ELSE results,
                 w, game_id, pitching, i + 1)

\* What can go wrong with one game: nothing, the box score request raises,
\* or an error is raised once the batting lines have been stored.
GameFaults == {"none", "boxscore", "pitching"}

\* _process_game without the try block: the exception leaves the service.
process_game_unguarded(acc, w, game_id, fault) ==
    LET game == Games[game_id]
        batted == process_batting_stats(acc.results, w, game_id,
                                        game.batting, 1)
    IN  IF game.status # "Final" THEN acc
        ELSE IF fault = "boxscore" THEN [acc EXCEPT !.raised = TRUE]
        ELSE IF fault = "pitching"
        THEN [acc EXCEPT !.results = batted, !.raised = TRUE]
        ELSE [acc EXCEPT !.results =
                process_pitching_stats(batted, w, game_id, game.pitchers, 1)]

\* _process_game: only a game whose status is Final is processed; an
\* exception is recorded in errors and the game is left as far as it got
\* (each row is written in its own transaction).
process_game(acc, w, game_id, fault) ==
    LET game == Games[game_id]
        batted == process_batting_stats(acc.results, w, game_id,
                                        game.batting, 1)
    IN  IF game.status # "Final" THEN acc
        ELSE IF fault = "boxscore"
        THEN [acc EXCEPT !.errors = Append(@, game_id)]
        ELSE IF fault = "pitching"
        THEN [acc EXCEPT !.results = batted, !.errors = Append(@, game_id)]
        ELSE [acc EXCEPT !.results =
                process_pitching_stats(batted, w, game_id, game.pitchers, 1)]

RECURSIVE process_games(_, _, _, _, _)
\* for game in games: self._process_game(week, game); an exception that
\* leaves _process_game ends the loop.
process_games(acc, w, games, faults, i) ==
    IF i > Len(games) \/ acc.raised THEN acc
    ELSE process_games(process_game(acc, w, games[i], faults[games[i]]),
                       w, games, faults, i + 1)

\* fetch_saturday_results(week): the WeeklyResult table afterwards, the
\* errors list of the response, and whether an exception left the call.
\* schedule_fails: statsapi.schedule raised.
fetch_saturday_results(results, w, games, faults, schedule_fails) ==
    LET start == [results |-> results, errors |-> <<>>, raised |-> FALSE]
    IN  IF schedule_fails
        THEN [start EXCEPT !.errors = <<"Failed to fetch games">>]
        ELSE IF games = <<>>
        THEN [start EXCEPT !.errors = <<"No games found">>]
        ELSE process_games(start, w, games, faults, 1)

\* mlb_results_service_v2._is_originally_scheduled: not a makeup game.  The
\* schedule is requested for the Saturday, so game_date is that date.
is_originally_scheduled(game) == ~game.rescheduled_from

\* mlb_results_service_v2.fetch_saturday_results: the games whose stats it
\* returns.  No command imports this version of the service.
valid_games(games) ==
    {g \in {games[i] : i \in 1..Len(games)} :
        /\ Games[g].status \notin {"Postponed", "Cancelled", "Suspended"}
        /\ is_originally_scheduled(Games[g])
        /\ Games[g].game_number = 1}

\* The faults a run over these games can meet: only a game that is
\* processed can fail.
FaultSets(games) ==
    {f \in [DOMAIN Games -> GameFaults] :
        \A g \in DOMAIN Games :
            f[g] # "none" =>
                /\ \E i \in 1..Len(games) : games[i] = g
                /\ Games[g].status = "Final"}

\* The fetch_mlb_results command: it calls fetch_saturday_results(week)
\* whether or not --dry-run was given, then prints the summary.
FetchMlbResults(w, dry_run, faults, schedule_fails) ==
    /\ run.pc = "idle"
    /\ n_runs < MaxRuns
    /\ LET out == fetch_saturday_results(weekly_results, w, schedule[w],
                                         faults, schedule_fails)
       IN  /\ weekly_results' = out.results
           /\ last' = Before("fetch_mlb_results",
                             [week |-> w, dry_run |-> dry_run,
                              faults |-> faults,
                              schedule_fails |-> schedule_fails,
                              errors |-> out.errors, raised |-> out.raised,
                              clean |-> /\ ~schedule_fails
                                        /\ \A g \in DOMAIN faults :
                                              faults[g] = "none",
                              repeat |-> /\ last.op = "fetch_mlb_results"
                                         /\ last.args.week = w
                                         /\ last.args.clean])
    /\ stages' = Append(stages, <<"ingest", w>>)
    /\ n_runs' = n_runs + 1
    /\ UNCHANGED <<picks, payments, pools, standings, total_lifetime_paid,
                   ledgerVars, openVars, handled, n_payments, schedule, payouts,
                   member_status,
                   weeks,
                   team_standings, run>>

\* The weeks whose Saturday has been played.
PlayedWeeks == {1}

\* Nothing ingested yet; the provider holds one of the schedules.
InitIngest ==
    /\ QuietTables
    /\ inflight = <<>>
    /\ row_locks = <<>>
    /\ account_balance = [u \in Users |-> 0]
    /\ low_balance_alert_sent = [u \in Users |-> FALSE]
    /\ transactions = <<>>
    /\ opening_balance = account_balance
    /\ weekly_results = <<>>
    /\ schedule \in [PlayedWeeks -> Schedules]
    /\ payouts = <<>>
    /\ member_status = [m \in TeamMember |-> "active"]
    /\ weeks = [w \in WeekIds |-> [is_completed |-> FALSE, is_active |-> w = 1]]
    /\ team_standings = <<>>
    /\ run = [pc |-> "idle"]
    /\ stages = <<>>

NextIngest ==
    \E w \in PlayedWeeks, dry_run \in BOOLEAN, schedule_fails \in BOOLEAN :
        \E faults \in FaultSets(schedule[w]) :
            FetchMlbResults(w, dry_run, faults, schedule_fails)

SpecIngest == InitIngest /\ [][NextIngest]_vars

(***************************************************************************)
(* Scoring: services/scoring_service.py.                                   *)
(***************************************************************************)
\* _verify_pick(pick, result), by category code.
verify_pick(category_code, result) ==
    CASE category_code = "2H"  -> result.achieved /\ result.stat_value >= 2
      [] category_code = "HR"  -> result.achieved /\ result.stat_value >= 1
      [] category_code = "SWP" -> result.achieved
      [] category_code = "S"   -> result.achieved /\ result.stat_value >= 1
      [] OTHER -> FALSE

\* score_single_pick that adds the points of a hit to the points held.
score_single_pick_accumulate(pick, results) ==
    LET key == <<pick.week, pick.player, pick.category>>
        is_hit == key \in DOMAIN results /\ verify_pick(pick.category, results[key])
    IN  [pick EXCEPT !.result_status = IF is_hit THEN "hit" ELSE "miss",
                     !.points_earned = @ + (IF is_hit THEN 1 ELSE 0),
                     !.scored_at = "now"]

\* score_single_pick(pick): a miss with 0 points when the pick has no
\* WeeklyResult, otherwise hit or miss as _verify_pick says.
score_single_pick(pick, results) ==
    LET key == <<pick.week, pick.player, pick.category>>
    IN  IF key \notin DOMAIN results
        THEN [pick EXCEPT !.result_status = "miss", !.points_earned = 0,
                          !.scored_at = "now"]
        ELSE LET is_hit == verify_pick(pick.category, results[key])
             IN  [pick EXCEPT
                    !.result_status = IF is_hit THEN "hit" ELSE "miss",
                    !.points_earned = IF is_hit THEN 1 ELSE 0,
                    !.scored_at = "now"]

\* score_week(week_id): every pick of the week is scored; the call fails
\* when the week has no picks.  picks_scored, hits and misses are the
\* counters of the service instance, which starts at zero.
score_week(pks, w, results) ==
    LET scored == {score_single_pick(p, results) : p \in {q \in pks : q.week = w}}
    IN  [success |-> \E p \in pks : p.week = w,
         picks |-> {p \in pks : p.week # w} \cup scored,
         picks_scored |-> Cardinality({q \in pks : q.week = w}),
         hits |-> Cardinality({p \in scored : p.result_status = "hit"}),
         misses |-> Cardinality({p \in scored : p.result_status # "hit"})]

\* reset_week_scoring that leaves points_earned as it is.
reset_week_scoring_keep_points(pks, w) ==
    [count |-> Cardinality({p \in pks : p.week = w}),
     picks |-> {IF p.week = w
                THEN [p EXCEPT !.result_status = "pending",
                               !.scored_at = "None"]
                ELSE p : p \in pks}]

\* reset_week_scoring(week_id): the picks of the week are updated to pending
\* with 0 points and no scored_at; the number of rows updated is returned.
reset_week_scoring(pks, w) ==
    [count |-> Cardinality({p \in pks : p.week = w}),
     picks |-> {IF p.week = w
                THEN [p EXCEPT !.result_status = "pending",
                               !.points_earned = 0,
                               !.scored_at = "None"]
                ELSE p : p \in pks}]

(***************************************************************************)
(* Standings: services/standings_service.py.                               *)
(***************************************************************************)
\* A new TeamStanding row.
TeamStanding ==
    [total_members |-> 0, active_members |-> 0, total_team_points |-> 0,
     average_points_per_member |-> 0, total_perfect_weeks |-> 0,
     participation_rate |-> 0, rank |-> 0]

\* The picks of a user for a team in a season, and the hits among picks.
SeasonPicks(pks, u, t, y) ==
    {p \in pks : p.user = u /\ p.team = t /\ Week[p.week].season_year = y}
HitCount(rows) == Cardinality({p \in rows : p.result_status = "hit"})

\* Week.objects.filter(season_year=..., is_completed=True)
CompletedWeeks(wks, y) ==
    {w \in WeekIds : Week[w].season_year = y /\ wks[w].is_completed}

RECURSIVE calculate_current_streak_skip_empty(_, _)
\* _calculate_current_streak that passes over a week without picks.
calculate_current_streak_skip_empty(rows, completed) ==
    IF completed = {} THEN 0
    ELSE LET w == CHOOSE x \in completed :
                     \A z \in completed :
                         Week[z].week_number <= Week[x].week_number
             played == {p \in rows : p.week = w}
         IN  IF played = {}
             THEN calculate_current_streak_skip_empty(rows, completed \ {w})
             ELSE IF HitCount(played) > 0
             THEN 1 + calculate_current_streak_skip_empty(rows,
                                                          completed \ {w})
             ELSE 0

RECURSIVE calculate_current_streak(_, _)
\* _calculate_current_streak: the completed weeks from the latest back, up
\* to the first one without picks or without a hit.
calculate_current_streak(rows, completed) ==
    IF completed = {} THEN 0
    ELSE LET w == CHOOSE x \in completed :
                     \A z \in completed :
                         Week[z].week_number <= Week[x].week_number
             hits == HitCount({p \in rows : p.week = w})
         IN  IF hits > 0
             THEN 1 + calculate_current_streak(rows, completed \ {w})
             ELSE 0

RECURSIVE calculate_longest_streak(_, _, _, _)
\* _calculate_longest_streak: the completed weeks in order, with the running
\* and the longest streak so far.
calculate_longest_streak(rows, completed, current, longest) ==
    IF completed = {} THEN longest
    ELSE LET w == CHOOSE x \in completed :
                     \A z \in completed :
                         Week[x].week_number <= Week[z].week_number
             hits == HitCount({p \in rows : p.week = w})
             now  == IF hits > 0 THEN current + 1 ELSE 0
         IN  calculate_longest_streak(rows, completed \ {w}, now,
                                      IF now > longest THEN now ELSE longest)

RECURSIVE SumAmounts(_, _)
\* Sum('amount') over the payment rows with the given keys.
SumAmounts(pays, keys) ==
    IF keys = {} THEN 0
    ELSE LET k == CHOOSE x \in keys : TRUE
         IN  pays[k].amount + SumAmounts(pays, keys \ {k})

\* The UserStanding of one member as _update_team_user_standings rebuilds it
\* from the member's picks of the season, the member's WeeklyPayout rows
\* marked 'paid' and WeeklyPayment rows marked 'paid'.
RebuiltStanding(stds, pks, pays, wks, u, t, y) ==
    LET key == <<u, t, y>>
        standing == IF key \in DOMAIN stds THEN stds[key] ELSE UserStanding
        rows == SeasonPicks(pks, u, t, y)
        played == {p.week : p \in rows}
        week_hits == [w \in played |-> HitCount({p \in rows : p.week = w})]
        total_picks == Cardinality(rows)
        hit_picks == HitCount(rows)
        total_winnings ==
            SumAmounts(payouts, {k \in DOMAIN payouts :
                                   /\ k[1] = u /\ k[2] = t
                                   /\ Week[k[3]].season_year = y
                                   /\ payouts[k].payout_status = "paid"})
        total_paid ==
            SumAmounts(pays, {k \in DOMAIN pays :
                                 /\ k[1] = u /\ k[2] = t
                                 /\ Week[k[3]].season_year = y
                                 /\ pays[k].payment_status = "paid"})
    IN  [standing EXCEPT
           !.total_points = hit_picks,
           !.total_picks_made = total_picks,
           !.total_picks_hit = hit_picks,
           !.weeks_participated = Cardinality(played),
           !.perfect_weeks =
               Cardinality({w \in played :
                               /\ week_hits[w] = 4
                               /\ Cardinality({p \in rows : p.week = w}) = 4}),
           !.highest_weekly_score =
               IF played = {} THEN 0
               ELSE week_hits[CHOOSE w \in played :
                                 \A z \in played : week_hits[z] <= week_hits[w]],
           !.current_streak =
               calculate_current_streak(rows, CompletedWeeks(wks, y)),
           !.longest_streak =
               calculate_longest_streak(rows, CompletedWeeks(wks, y), 0, 0),
           !.total_winnings = total_winnings,
           !.total_paid = total_paid,
           !.accuracy_percentage =
               IF total_picks > 0 THEN Quantize(hit_picks * 10000, total_picks)
               ELSE 0,
           !.net_profit = total_winnings - total_paid]

RECURSIVE update_team_user_standings(_, _, _, _, _, _, _)
\* _update_team_user_standings: the loop over the active members.
update_team_user_standings(stds, pks, pays, wks, members, t, y) ==
    IF members = {} THEN stds
    ELSE LET u == CHOOSE x \in members : TRUE
         IN  update_team_user_standings(
                 (<<u, t, y>> :> RebuiltStanding(stds, pks, pays, wks, u, t, y))
                     @@ stds,
                 pks, pays, wks, members \ {u}, t, y)

RECURSIVE SumStanding(_, _, _)
\* Sum(field) over the UserStanding rows with the given keys.
SumStanding(stds, keys, field) ==
    IF keys = {} THEN 0
    ELSE LET k == CHOOSE x \in keys : TRUE
         IN  stds[k][field] + SumStanding(stds, keys \ {k}, field)

\* _update_team_standing: the TeamStanding of the team and season.
update_team_standing(tstds, stds, wks, t, y) ==
    LET key == <<t, y>>
        standing == IF key \in DOMAIN tstds THEN tstds[key] ELSE TeamStanding
        members == Cardinality({m \in TeamMember : m[2] = t})
        active == Cardinality({m \in TeamMember :
                                 m[2] = t /\ member_status[m] = "active"})
        user_standings == {k \in DOMAIN stds : k[2] = t /\ k[3] = y}
        total_points == SumStanding(stds, user_standings, "total_points")
        completed == Cardinality(CompletedWeeks(wks, y))
    IN  (key :>
          [standing EXCEPT
             !.total_members = members,
             !.active_members = active,
             !.total_team_points = total_points,
             !.average_points_per_member =
                 IF user_standings = {} THEN 0
                 ELSE Quantize(total_points * 100, Cardinality(user_standings)),
             !.total_perfect_weeks =
                 SumStanding(stds, user_standings, "perfect_weeks"),
             !.participation_rate =
                 IF completed > 0 /\ active > 0
                 THEN Quantize(SumStanding(stds, user_standings,
                                           "weeks_participated") * 10000,
                               completed * active)
                 ELSE 0])
        @@ tstds

RECURSIVE update_teams(_, _, _, _, _, _, _)
\* The loop of update_all_standings_for_week over the week's prize pools:
\* the members' standings, then the team's.
update_teams(stds, tstds, pks, pays, wks, teams, y) ==
    IF teams = {} THEN [standings |-> stds, team_standings |-> tstds]
    ELSE LET t == CHOOSE x \in teams : TRUE
             stds1 == update_team_user_standings(
                          stds, pks, pays, wks,
                          {m[1] : m \in {x \in TeamMember :
                                            /\ x[2] = t
                                            /\ member_status[x] = "active"}},
                          t, y)
         IN  update_teams(stds1, update_team_standing(tstds, stds1, wks, t, y),
                          pks, pays, wks, teams \ {t}, y)

\* The rank orders of a set of rows under a sort key (a tuple of numbers,
\* larger first): rows with equal keys come in the order the database
\* returns them.
Before3(a, b) ==
    \/ a[1] > b[1]
    \/ a[1] = b[1] /\ a[2] > b[2]
    \/ a[1] = b[1] /\ a[2] = b[2] /\ a[3] > b[3]
RankOrders(keys, sortkey) ==
    {r \in [keys -> 1..Cardinality(keys)] :
        /\ \A a, b \in keys : a # b => r[a] # r[b]
        /\ \A a, b \in keys : Before3(sortkey[a], sortkey[b]) => r[a] < r[b]}

\* _calculate_rankings: team_rank of the users of every team that has a
\* TeamStanding in the season.
UserSortKey(stds) ==
    [k \in DOMAIN stds |-> <<stds[k].total_points, stds[k].accuracy_percentage,
                             stds[k].perfect_weeks>>]
UserRankings(stds, tstds, y) ==
    {r \in [{k \in DOMAIN stds : k[3] = y /\ <<k[2], y>> \in DOMAIN tstds}
              -> 1..Cardinality(DOMAIN stds)] :
        \A tk \in DOMAIN tstds :
            tk[2] = y =>
                LET keys == {k \in DOMAIN stds : k[2] = tk[1] /\ k[3] = y}
                IN  [k \in keys |-> r[k]] \in RankOrders(keys, UserSortKey(stds))}

\* _calculate_rankings: rank of the teams of the season.
TeamSortKey(tstds) ==
    [k \in DOMAIN tstds |-> <<tstds[k].total_team_points,
                              tstds[k].average_points_per_member, 0>>]
TeamRankings(tstds, y) ==
    RankOrders({k \in DOMAIN tstds : k[2] = y}, TeamSortKey(tstds))

(***************************************************************************)
(* The management commands score_week and score_week_auto, step by step.   *)
(***************************************************************************)
\* The weeks the commands are run on: week 1 has picks, week 2 has none.
CommandWeeks == {1, 2}

\* The tables no step of score_week writes.
commandFrame ==
    <<payments, total_lifetime_paid, ledgerVars, openVars, handled,
      n_payments, schedule, payouts, member_status>>

\* No command is running; started counts the commands begun so far.
Idle == [pc |-> "idle", started |-> run.started]

\* update_all_standings_for_week(week): the standings of the teams with a
\* prize pool in the week are rebuilt, then every user and team standing of
\* the season is ranked.
update_standings_for_week(w) ==
    LET y == Week[w].season_year
    IN  \E out \in {update_teams(standings, team_standings, picks, payments,
                                 weeks, {k[1] : k \in prize_pools(pools, w)},
                                 y)} :
        \E ur \in UserRankings(out.standings, out.team_standings, y) :
        \E tr \in TeamRankings(out.team_standings, y) :
            /\ standings' =
                  [k \in DOMAIN out.standings |->
                     IF k \in DOMAIN ur
                     THEN [out.standings[k] EXCEPT !.team_rank = ur[k]]
                     ELSE out.standings[k]]
            /\ team_standings' =
                  [k \in DOMAIN out.team_standings |->
                     IF k \in DOMAIN tr
                     THEN [out.team_standings[k] EXCEPT !.rank = tr[k]]
                     ELSE out.team_standings[k]]

\* score_week <week_id> [--fetch-results] [--determine-winners] [--dry-run]:
\* the options are read and the week is loaded.
ScoreWeekStart(w, fetch_results, determine_winners, dry_run) ==
    /\ run.pc = "idle"
    /\ run.started < MaxCommands
    /\ (determine_winners /\ ~dry_run) => n_runs < MaxRuns
    /\ run' = [pc |-> "fetch", week |-> w, fetch_results |-> fetch_results,
               determine_winners |-> determine_winners, dry_run |-> dry_run,
               auto |-> FALSE, started |-> run.started + 1]
    /\ last' = Before("score_week",
                      [week |-> w, fetch_results |-> fetch_results,
                       determine_winners |-> determine_winners,
                       dry_run |-> dry_run])
    /\ UNCHANGED <<picks, pools, standings, commandFrame, n_runs,
                   weekly_results, weeks, team_standings, stages>>

\* score_week_auto [--dry-run], run for the week of yesterday's Saturday: a
\* completed week is only shown, a dry run only printed; otherwise
\* score_week is called with --fetch-results --determine-winners.
ScoreWeekAuto(w, dry_run) ==
    /\ run.pc = "idle"
    /\ run.started < MaxCommands
    /\ (~weeks[w].is_completed /\ ~dry_run) => n_runs < MaxRuns
    /\ run' = IF weeks[w].is_completed \/ dry_run
              THEN [pc |-> "idle", started |-> run.started + 1]
              ELSE [pc |-> "fetch", week |-> w, fetch_results |-> TRUE,
                    determine_winners |-> TRUE, dry_run |-> FALSE,
                    auto |-> TRUE, started |-> run.started + 1]
    /\ last' = Before("score_week_auto",
                      [week |-> w, dry_run |-> dry_run,
                       already_scored |-> weeks[w].is_completed])
    /\ UNCHANGED <<picks, pools, standings, commandFrame, n_runs,
                   weekly_results, weeks, team_standings, stages>>

\* Step 1.  Without --fetch-results, or in a dry run, nothing is fetched.
\* Otherwise fetch_saturday_results is handed week.saturday_date where the
\* imported service reads week.saturday_date of its argument: the call
\* raises, and the except clause turns it into a CommandError that ends the
\* command (score_week_auto re-raises it).
StepFetch ==
    /\ run.pc = "fetch"
    /\ IF run.fetch_results /\ ~run.dry_run
       THEN /\ run' = Idle
            /\ last' = Before("command_error",
                              [week |-> run.week, step |-> "fetch"])
       ELSE /\ run' = [run EXCEPT !.pc = "score"]
            /\ UNCHANGED last
    /\ UNCHANGED <<picks, pools, standings, commandFrame, n_runs,
                   weekly_results, weeks, team_standings, stages>>

\* Step 2.  A dry run reports zero picks scored; otherwise score_week of the
\* scoring service runs, and its failure (no picks) ends the command with a
\* CommandError.
StepScore ==
    /\ run.pc = "score"
    /\ IF run.dry_run
       THEN /\ run' = [run EXCEPT !.pc = "winners"]
            /\ UNCHANGED <<picks, last, stages>>
       ELSE LET out == score_week(picks, run.week, weekly_results)
            IN  IF out.success
                THEN /\ picks' = out.picks
                     /\ run' = [run EXCEPT !.pc = "winners"]
                     /\ stages' = Append(stages, <<"score", run.week>>)
                     /\ last' = Before("score",
                           [week |-> run.week,
                            rescore |->
                               \E i \in DOMAIN stages :
                                  /\ stages[i] = <<"score", run.week>>
                                  /\ \A j \in DOMAIN stages :
                                        j > i =>
                                           stages[j] # <<"ingest", run.week>>])
                ELSE /\ run' = Idle
                     /\ last' = Before("command_error",
                                       [week |-> run.week, step |-> "score"])
                     /\ UNCHANGED <<picks, stages>>
    /\ UNCHANGED <<pools, standings, commandFrame, n_runs, weekly_results,
                   weeks, team_standings>>

\* Step 3 skipped: no --determine-winners, or a dry run.
StepSkipWinners ==
    /\ run.pc = "winners"
    /\ ~run.determine_winners \/ run.dry_run
    /\ run' = [run EXCEPT !.pc = "complete"]
    /\ UNCHANGED <<picks, pools, standings, commandFrame, n_runs, last,
                   weekly_results, weeks, team_standings, stages>>

\* Step 3.  determine_weekly_winners(week_id); it reports success for every
\* week that exists.
StepWinners ==
    /\ run.pc = "winners"
    /\ run.determine_winners /\ ~run.dry_run
    /\ determine_weekly_winners(run.week, {}, FALSE)
    /\ run' = [run EXCEPT !.pc = "standings"]
    /\ stages' = Append(stages, <<"winners", run.week>>)

\* Step 4, reached only through step 3: update_standings_for_week(week).
StepStandings ==
    /\ run.pc = "standings"
    /\ update_standings_for_week(run.week)
    /\ run' = [run EXCEPT !.pc = "complete"]
    /\ stages' = Append(stages, <<"standings", run.week>>)
    /\ last' = Before("standings", [week |-> run.week])
    /\ UNCHANGED <<picks, pools, commandFrame, n_runs, weekly_results, weeks>>

\* _activate_next_week(current_week): the week of the following Saturday is
\* opened for picks if it is not open yet.  The weeks of a season fall on
\* consecutive Saturdays.
activate_next_week(wks, w) ==
    [x \in DOMAIN wks |->
        IF /\ x = w + 1 /\ Week[x].season_year = Week[w].season_year
           /\ ~wks[x].is_active
        THEN [wks[x] EXCEPT !.is_active = TRUE]
        ELSE wks[x]]

\* The end of score_week: outside a dry run the week is marked completed.
\* When score_week_auto made the call, it then activates the next week.
StepComplete ==
    /\ run.pc = "complete"
    /\ weeks' =
          IF run.dry_run THEN weeks
          ELSE LET done == [weeks EXCEPT ![run.week].is_completed = TRUE]
               IN  IF run.auto THEN activate_next_week(done, run.week)
                   ELSE done
    /\ run' = Idle
    /\ UNCHANGED <<picks, pools, standings, commandFrame, n_runs, last,
                   weekly_results, team_standings, stages>>

\* The picks of week 1, as submitted: u1 and u2 made four picks, u3 three.
SubmittedPicks ==
    LET row(u, t, c, player) ==
            [user |-> u, team |-> t, week |-> 1, category |-> c,
             player |-> player, result_status |-> "pending",
             points_earned |-> 0, scored_at |-> "None"]
    IN  {row("u1", "t1", "2H", "p1"), row("u1", "t1", "HR", "p1"),
         row("u1", "t1", "SWP", "p2"), row("u1", "t1", "S", "p2"),
         row("u2", "t1", "2H", "p1"), row("u2", "t1", "HR", "p3"),
         row("u2", "t1", "SWP", "p2"), row("u2", "t1", "S", "p3"),
         row("u3", "t2", "2H", "p3"), row("u3", "t2", "HR", "p1"),
         row("u3", "t2", "SWP", "p2")}

RECURSIVE PaidUp(_, _, _, _)
\* The payment and pool tables after the given members paid the fee of
\* week w, one payment after the other.
PaidUp(pays, pls, members, w) ==
    IF members = {} THEN [payments |-> pays, pools |-> pls]
    ELSE LET m == CHOOSE x \in members : TRUE
             payment == PaymentRow(pays, m[1], m[2], w, weekly_fee[m[2]])
             pays1 == (<<m[1], m[2], w>> :> payment) @@ pays
         IN  PaidUp(pays1,
                    (<<m[2], w>> :>
                       PoolAfterPayment(pls, pays1, m[2], w, payment.amount))
                      @@ pls,
                    members \ {m}, w)

\* Week 1 is open, every member has paid for it and picked; the provider
\* holds one of the schedules; nothing is ingested or scored.
InitSettlement ==
    /\ picks = SubmittedPicks
    /\ LET paid == PaidUp(<<>>, <<>>, TeamMember, 1)
       IN  /\ payments = paid.payments
           /\ pools = paid.pools
           /\ total_lifetime_paid = [u \in Users |-> paid.payments[
                 CHOOSE k \in DOMAIN paid.payments : k[1] = u].amount]
           /\ handled = [k \in PoolKeys |->
                           IF k \in DOMAIN paid.pools
                           THEN paid.pools[k].total_collected ELSE 0]
    /\ standings = <<>>
    /\ account_balance = [u \in Users |-> 0]
    /\ low_balance_alert_sent = [u \in Users |-> FALSE]
    /\ transactions = <<>>
    /\ opening_balance = account_balance
    /\ inflight = <<>>
    /\ row_locks = <<>>
    /\ n_payments = 0
    /\ n_runs = 0
    /\ last = NoOp
    /\ weekly_results = <<>>
    /\ schedule \in [PlayedWeeks -> Schedules]
    /\ payouts = <<>>
    /\ member_status = [m \in TeamMember |-> "active"]
    /\ weeks = [w \in WeekIds |-> [is_completed |-> FALSE, is_active |-> w = 1]]
    /\ team_standings = <<>>
    /\ run = [pc |-> "idle", started |-> 0]
    /\ stages = <<>>

\* A run of fetch_mlb_results that meets no fault.
NoFaults == [g \in DOMAIN Games |-> "none"]

FetchResults ==
    \E w \in PlayedWeeks, dry_run \in BOOLEAN :
        FetchMlbResults(w, dry_run, NoFaults, FALSE)

ScoreWeek ==
    \E w \in CommandWeeks, fetch_results \in BOOLEAN :
        \E determine_winners \in BOOLEAN, dry_run \in BOOLEAN :
            ScoreWeekStart(w, fetch_results, determine_winners, dry_run)

ScoreWeekAutoRun ==
    \E w \in CommandWeeks, dry_run \in BOOLEAN : ScoreWeekAuto(w, dry_run)

NextSettlement ==
    \/ FetchResults
    \/ ScoreWeek
    \/ ScoreWeekAutoRun
    \/ StepFetch
    \/ StepScore
    \/ StepSkipWinners
    \/ StepWinners
    \/ StepStandings
    \/ StepComplete

SpecSettlement == InitSettlement /\ [][NextSettlement]_vars

(***************************************************************************)
(* Week activation: score_week_auto._activate_next_week as a unit.         *)
(***************************************************************************)
\* The tail of score_week_auto after score_week has returned for week w (so
\* the week is marked completed): _activate_next_week(week).
ActivateNextWeek(w) ==
    /\ run.pc = "idle"
    /\ weeks[w].is_completed
    /\ weeks' = activate_next_week(weeks, w)
    /\ last' = Before("activate_next_week", [week |-> w])
    /\ UNCHANGED <<picks, payments, pools, standings, total_lifetime_paid,
                   ledgerVars, openVars, handled, n_payments, n_runs,
                   weekly_results, schedule, payouts, member_status,
                   team_standings, cmdVars>>

\* Exactly one week is open for picks; any weeks may be completed.
InitActivation ==
    /\ QuietTables
    /\ inflight = <<>>
    /\ row_locks = <<>>
    /\ account_balance = [u \in Users |-> 0]
    /\ low_balance_alert_sent = [u \in Users |-> FALSE]
    /\ transactions = <<>>
    /\ opening_balance = account_balance
    /\ weekly_results = <<>>
    /\ schedule = <<>>
    /\ payouts = <<>>
    /\ member_status = [m \in TeamMember |-> "active"]
    /\ \E open \in WeekIds, completed \in SUBSET WeekIds :
          weeks = [w \in WeekIds |-> [is_completed |-> w \in completed,
                                      is_active |-> w = open]]
    /\ team_standings = <<>>
    /\ run = [pc |-> "idle"]
    /\ stages = <<>>

NextActivation == \E w \in WeekIds : ActivateNextWeek(w)

SpecActivation == InitActivation /\ [][NextActivation]_vars

(***************************************************************************)
(* The standings of a season in progress: winner determination and the     *)
(* standings rebuild, called directly.                                     *)
(***************************************************************************)
\* The weeks of season 2026.
SeasonWeeks == {w \in WeekIds : Week[w].season_year = 2026}

\* The scored Pick rows of one user for one week, by profile: the profiles
\* of PickRows, and "blank" for 4 picks without a hit.
ScoredRows(u, t, w, kind) ==
    {[user |-> p.user, team |-> p.team, week |-> p.week,
      category |-> p.category, player |-> "p1",
      result_status |-> IF p.points_earned = 1 /\ kind # "blank"
                        THEN "hit" ELSE "miss",
      points_earned |-> IF kind = "blank" THEN 0 ELSE p.points_earned]
     : p \in PickRows(u, t, w, IF kind = "blank" THEN "perfect"
                                ELSE kind)}

\* The ways a member's season can have gone, week by week.
SeasonProfiles ==
    {<<"perfect", "blank", "miss1">>, <<"miss1", "none", "short">>,
     <<"blank", "blank", "none">>, <<"miss1", "perfect", "short">>}

\* The seasons the members can have had: u3's is the second profile, u2
\* started with a week of hits.
SeasonsPlayed ==
    {season \in [Users -> SeasonProfiles] :
        /\ season["u3"] = <<"miss1", "none", "short">>
        /\ season["u2"][1] # "blank"}

\* The WeeklyPayout tables an administrator may have entered: none, or a
\* paid and a pending payout for u1.
PayoutTables ==
    {<<>>,
     (<<"u1", "t1", 1>> :> [amount |-> 800, payout_status |-> "paid"])
       @@ (<<"u1", "t1", 2>> :> [amount |-> 400, payout_status |-> "pending"])}

RECURSIVE PaidWeeks(_, _, _)
\* The payment and pool tables after every member paid for the given weeks.
PaidWeeks(pays, pls, ws) ==
    IF ws = {} THEN [payments |-> pays, pools |-> pls]
    ELSE LET w == CHOOSE x \in ws : TRUE
             paid == PaidUp(pays, pls, TeamMember, w)
         IN  PaidWeeks(paid.payments, paid.pools, ws \ {w})

\* update_standings_for_week(week), called on its own.
UpdateStandings(w) ==
    /\ run.pc = "idle"
    /\ update_standings_for_week(w)
    /\ last' = Before("update_standings",
                      [week |-> w,
                       repeat |-> /\ last.op = "update_standings"
                                  /\ last.args.week = w])
    /\ UNCHANGED <<picks, pools, commandFrame, n_runs, weekly_results, weeks,
                   cmdVars>>

\* A season in progress: the picks of weeks 1 to 3 are scored, the members
\* have paid for weeks 1 and 2, the first weeks are completed, and no
\* standing has been written.
InitStandings ==
    /\ \E season \in SeasonsPlayed :
          picks = UNION {ScoredRows(m[1], m[2], w, season[m[1]][w])
                         : m \in TeamMember, w \in SeasonWeeks}
    /\ LET paid == PaidWeeks(<<>>, <<>>, ScoredWeeks)
       IN  /\ payments = paid.payments
           /\ pools = paid.pools
           /\ total_lifetime_paid =
                 [u \in Users |->
                    SumAmounts(paid.payments,
                               {k \in DOMAIN paid.payments : k[1] = u})]
           /\ handled = [k \in PoolKeys |->
                           IF k \in DOMAIN paid.pools
                           THEN paid.pools[k].total_collected ELSE 0]
    /\ standings = <<>>
    /\ account_balance = [u \in Users |-> 0]
    /\ low_balance_alert_sent = [u \in Users |-> FALSE]
    /\ transactions = <<>>
    /\ opening_balance = account_balance
    /\ inflight = <<>>
    /\ row_locks = <<>>
    /\ n_payments = 0
    /\ n_runs = 0
    /\ last = NoOp
    /\ weekly_results = <<>>
    /\ schedule = <<>>
    /\ payouts \in PayoutTables
    /\ member_status = [m \in TeamMember |-> "active"]
    /\ \E n \in 0..2 :
          weeks = [w \in WeekIds |-> [is_completed |-> w <= n,
                                      is_active |-> w = n + 1]]
    /\ team_standings = <<>>
    /\ run = [pc |-> "idle"]
    /\ stages = <<>>

\* determine_weekly_winners(week_id) for a week the members paid for.
SettleSeason ==
    /\ \E w \in ScoredWeeks : determine_weekly_winners(w, {}, FALSE)
    /\ UNCHANGED cmdVars

\* The members whose membership is ended during the season.
Leavers == {<<"u2", "t1">>}

\* A member's TeamMember.status is set to 'inactive' in the admin site; the
\* member's picks and UserStanding row stay.
DeactivateMember(m) ==
    /\ run.pc = "idle"
    /\ member_status[m] = "active"
    /\ member_status' = [member_status EXCEPT ![m] = "inactive"]
    /\ last' = Before("deactivate_member", [user |-> m[1], team |-> m[2]])
    /\ UNCHANGED <<picks, payments, pools, standings, total_lifetime_paid,
                   ledgerVars, openVars, handled, n_payments, n_runs,
                   weekly_results, schedule, weeks, team_standings, payouts,
                   cmdVars>>

NextStandings ==
    \/ \E w \in SeasonWeeks : UpdateStandings(w)
    \/ SettleSeason
    \/ \E m \in Leavers : DeactivateMember(m)

SpecStandings == InitStandings /\ [][NextStandings]_vars

(***************************************************************************)
(* The scoring service called directly, on WeeklyResult rows as ingested   *)
(* or as entered in the admin site.                                        *)
(***************************************************************************)
\* The WeeklyResult rows a (week, player, category) may have: the achieved
\* flag and the stat value are separate editable fields.  Stat values run
\* up to the category's threshold.
ResultRows(category_code) ==
    {[achieved |-> a, stat_value |-> v, game_id |-> <<"g1">>]
     : a \in BOOLEAN, v \in 0..(IF category_code = "2H" THEN 2 ELSE 1)}

\* The WeeklyResult tables of week 1: for each category a row of the player
\* who can earn it, or none.
ResultTables ==
    LET keys == {<<1, "p1", "2H">>, <<1, "p1", "HR">>, <<1, "p2", "SWP">>,
                 <<1, "p2", "S">>}
    IN  UNION {{f \in [present -> ResultRows("2H")] :
                  \A k \in present : f[k] \in ResultRows(k[3])}
               : present \in SUBSET keys}

\* The picks the scoring service is called on: those of u1 for week 1 and
\* one pick of u1 for week 2, which has no results yet.
ScoringPicks ==
    {p \in SubmittedPicks : p.user = "u1"}
      \cup {[user |-> "u1", team |-> "t1", week |-> 2, category |-> "2H",
              player |-> "p1", result_status |-> "pending",
              points_earned |-> 0, scored_at |-> "None"]}

\* score_week(week_id) of the scoring service.
ScoringScoreWeek(w) ==
    /\ run.pc = "idle"
    /\ LET out == score_week(picks, w, weekly_results)
       IN  /\ picks' = out.picks
           /\ last' = Before("score_week_service",
                             [week |-> w, success |-> out.success,
                              picks_scored |-> out.picks_scored,
                              hits |-> out.hits, misses |-> out.misses,
                              before_reset |->
                                  IF /\ last.op = "reset_week_scoring"
                                     /\ last.args.week = w
                                  THEN {p \in last.picks : p.week = w}
                                  ELSE {}])
    /\ UNCHANGED <<pools, standings, commandFrame, n_runs, weekly_results,
                   weeks, team_standings, cmdVars>>

\* rescore_pick(pick_id): score_single_pick on the one pick.
RescorePick(pick) ==
    /\ run.pc = "idle"
    /\ picks' = (picks \ {pick}) \cup {score_single_pick(pick, weekly_results)}
    /\ last' = Before("rescore_pick",
                      [user |-> pick.user, team |-> pick.team,
                       week |-> pick.week, category |-> pick.category])
    /\ UNCHANGED <<pools, standings, commandFrame, n_runs, weekly_results,
                   weeks, team_standings, cmdVars>>

\* reset_week_scoring(week_id): every pick of the week is pending again.
ResetWeekScoring(w) ==
    /\ run.pc = "idle"
    /\ LET out == reset_week_scoring(picks, w)
       IN  /\ picks' = out.picks
           /\ last' = Before("reset_week_scoring",
                             [week |-> w, count |-> out.count])
    /\ UNCHANGED <<pools, standings, commandFrame, n_runs, weekly_results,
                   weeks, team_standings, cmdVars>>

\* Week 1 is open with u1's picks submitted and its results in the table.
InitScoring ==
    /\ picks = ScoringPicks
    /\ payments = <<>>
    /\ pools = <<>>
    /\ standings = <<>>
    /\ total_lifetime_paid = [u \in Users |-> 0]
    /\ handled = [k \in PoolKeys |-> 0]
    /\ n_payments = 0
    /\ n_runs = 0
    /\ last = NoOp
    /\ inflight = <<>>
    /\ row_locks = <<>>
    /\ account_balance = [u \in Users |-> 0]
    /\ low_balance_alert_sent = [u \in Users |-> FALSE]
    /\ transactions = <<>>
    /\ opening_balance = account_balance
    /\ weekly_results \in ResultTables
    /\ schedule = <<>>
    /\ payouts = <<>>
    /\ member_status = [m \in TeamMember |-> "active"]
    /\ weeks = [w \in WeekIds |-> [is_completed |-> FALSE, is_active |-> w = 1]]
    /\ team_standings = <<>>
    /\ run = [pc |-> "idle"]
    /\ stages = <<>>

NextScoring ==
    \/ \E w \in CommandWeeks : ScoringScoreWeek(w)
    \/ \E pick \in picks : RescorePick(pick)
    \/ \E w \in CommandWeeks : ResetWeekScoring(w)

SpecScoring == InitScoring /\ [][NextScoring]_vars

(***************************************************************************)
(* Properties of winner determination and payment intake.                  *)
(***************************************************************************)
\* The last operation was a committed settlement run of a week with pools.
SettledWinners ==
    /\ last.op = "winners" /\ ~last.args.aborted
    /\ prize_pools(last.pools, last.args.week) # {}

SettledRollover == last.op = "rollover" /\ ~last.args.aborted

\* The AccountTransaction rows created by the last operation.
NewTransactions ==
    {transactions[i] : i \in (Len(last.transactions) + 1)..Len(transactions)}

\* The payout_per_winner the last run stored on the week's pools.
StoredPayout ==
    LET k == CHOOSE x \in prize_pools(pools, last.args.week) : TRUE
    IN  pools[k].payout_per_winner

\* C1: after determine_weekly_winners finds winners, each winner's
\* account_balance has grown by payout_per_winner and the run created one
\* 'deposit' AccountTransaction per winner with
\* balance_after - balance_before = payout_per_winner.
C1_WinnersAreCredited ==
    SettledWinners =>
        \A p \in last.args.perfect :
            /\ account_balance[p[1]]
                 = last.account_balance[p[1]] + StoredPayout
            /\ \E tx \in NewTransactions :
                  /\ tx.user = p[1]
                  /\ tx.transaction_type = "deposit"
                  /\ tx.balance_after - tx.balance_before = StoredPayout

\* C2: a settlement run of a week whose pools are all is_scored already
\* changes no WeeklyPrizePool, no UserStanding.total_winnings and no
\* balance.
C2_RerunMovesNoMoney ==
    ( /\ last.op \in {"winners", "rollover"}
      /\ prize_pools(last.pools, last.args.week) # {}
      /\ \A k \in prize_pools(last.pools, last.args.week) : last.pools[k].is_scored )
    => /\ pools = last.pools
       /\ DOMAIN standings = DOMAIN last.standings
       /\ \A k \in DOMAIN standings :
             standings[k].total_winnings = last.standings[k].total_winnings
       /\ account_balance = last.account_balance

\* C3: with n >= 1 winners, payout_per_winner times n equals the total
\* available in the week's pools before the run.
C3_PayoutSplitConserves ==
    SettledWinners =>
        StoredPayout * Cardinality(last.args.perfect)
            = total_available(last.pools, last.args.week)

\* C4: in every pool row, weekly_pool_amount + season_pot_contribution +
\* company_fee = total_collected.
C4_PoolSplitInvariant ==
    \A k \in DOMAIN pools :
        pools[k].weekly_pool_amount + pools[k].season_pot_contribution
            + pools[k].company_fee = pools[k].total_collected

\* The weeks of the same season with the next week_number (at most one).
FollowingWeeks(w) ==
    {x \in DOMAIN Week : /\ Week[x].season_year = Week[w].season_year
                         /\ Week[x].week_number = Week[w].week_number + 1}

\* rollover_from_previous of a pool that may not exist yet.
RolloverBefore(pls, k) ==
    IF k \in DOMAIN pls THEN pls[k].rollover_from_previous ELSE 0

\* C5: after a no-winner run of a week that has a following week in the
\* season, each team's pool of the following week exists and its
\* rollover_from_previous has grown by the current pool's
\* weekly_pool_amount + rollover_from_previous; the current pool has
\* rollover_from_previous = 0, num_perfect_picks = 0, payout_per_winner = 0
\* and is_scored.
C5_RolloverToNextWeek ==
    (SettledRollover /\ FollowingWeeks(last.args.week) # {}) =>
        \A k \in prize_pools(last.pools, last.args.week) :
            LET n  == CHOOSE x \in FollowingWeeks(last.args.week) : TRUE
                nk == <<k[1], n>>
            IN  /\ nk \in DOMAIN pools
                /\ pools[nk].rollover_from_previous
                     = RolloverBefore(last.pools, nk)
                         + last.pools[k].weekly_pool_amount
                         + last.pools[k].rollover_from_previous
                /\ pools[k].rollover_from_previous = 0
                /\ pools[k].num_perfect_picks = 0
                /\ pools[k].payout_per_winner = 0
                /\ pools[k].is_scored

\* A no-winner run moved a pool holding both fresh money and an earlier
\* rollover into a following week.
C5_Witness ==
    /\ SettledRollover /\ FollowingWeeks(last.args.week) # {}
    /\ \E k \in prize_pools(last.pools, last.args.week) :
          /\ last.pools[k].weekly_pool_amount > 0
          /\ last.pools[k].rollover_from_previous > 0

\* C6: after a no-winner run of a week with no following week in the
\* season, each of the week's pools has weekly_pool_amount +
\* rollover_from_previous added to its season_pot_contribution, is_scored
\* set and rollover_from_previous = 0; no pool of another week is created
\* or changed.
C6_RolloverAtSeasonEnd ==
    (SettledRollover /\ FollowingWeeks(last.args.week) = {}) =>
        /\ DOMAIN pools = DOMAIN last.pools
        /\ \A k \in DOMAIN pools :
              k[2] # last.args.week => pools[k] = last.pools[k]
        /\ \A k \in prize_pools(last.pools, last.args.week) :
              /\ pools[k].season_pot_contribution
                   = last.pools[k].season_pot_contribution
                       + last.pools[k].weekly_pool_amount
                       + last.pools[k].rollover_from_previous
              /\ pools[k].is_scored
              /\ pools[k].rollover_from_previous = 0

\* A no-winner run of the season's last week diverted a non-empty pool.
C6_Witness ==
    /\ SettledRollover /\ FollowingWeeks(last.args.week) = {}
    /\ \E k \in prize_pools(last.pools, last.args.week) :
          last.pools[k].weekly_pool_amount
              + last.pools[k].rollover_from_previous > 0

\* C7: after a settlement run, whether it returned or failed part-way, the
\* pools and standings are either those before the run or those of the
\* complete run; no mixture is observable.
C7_AllOrNothing ==
    last.op \in {"winners", "rollover"} =>
        \/ /\ pools = last.pools
           /\ standings = last.standings
        \/ /\ last.op = "rollover"
           /\ pools = handle_rollover(
                         last.pools,
                         {k[1] : k \in prize_pools(last.pools, last.args.week)},
                         last.args.week, {})
           /\ standings = last.standings
        \/ /\ last.op = "winners"
           /\ pools = PoolsAfterPayout(last.pools, last.args.week, last.args.perfect)
           /\ standings = StandingsAfterPayout(last.pools, last.standings,
                                               last.args.week, last.args.perfect)

(***************************************************************************)
(* Properties of the account ledger.                                       *)
(***************************************************************************)
\* A user's AccountTransaction rows in creation order.
RowsOf(u) == SelectSeq(transactions, LAMBDA r : r.user = u)

\* C8: for every user, the AccountTransaction rows in creation order form a
\* chain: the first balance_before is the balance the account started with,
\* each later balance_before is the previous row's balance_after, and the
\* last balance_after is the current account_balance.
C8_LedgerReplay ==
    \A u \in Users :
        LET rows == RowsOf(u)
        IN  /\ rows = <<>> => account_balance[u] = opening_balance[u]
            /\ rows # <<>> =>
                  /\ rows[1].balance_before = opening_balance[u]
                  /\ rows[Len(rows)].balance_after = account_balance[u]
            /\ \A i \in 1..(Len(rows) - 1) :
                  rows[i + 1].balance_before = rows[i].balance_after

\* One user's ledger holds a deposit, a payment and a withdrawal.
C8_Witness ==
    \E u \in Users :
        /\ Len(RowsOf(u)) >= 3
        /\ {RowsOf(u)[i].transaction_type : i \in 1..Len(RowsOf(u))}
              = {"deposit", "payment", "withdrawal"}

\* The balance and the rows left by running call c1 and then call c2, each
\* from start to commit.
SerialOutcome(c1, c2) ==
    LET start == [account_balance |-> opening_balance[SharedUser],
                  low_balance_alert_sent |-> FALSE]
        o1 == BalanceService(inflight[c1].op, start, SharedUser,
                             inflight[c1].amount)
        o2 == BalanceService(inflight[c2].op, o1.profile, SharedUser,
                             inflight[c2].amount)
    IN  [account_balance |-> o2.profile.account_balance,
         rows |-> o1.rows \o o2.rows]

\* C9: when two concurrent balance calls on one user have both finished, the
\* account_balance and the recorded transaction rows are those of running
\* the two calls one after the other, in one of the two orders.
C9_ConcurrentCallsSerialize ==
    (\A c \in ConcurrentCalls : inflight[c].pc = "done") =>
        \E c1 \in ConcurrentCalls :
            LET c2 == CHOOSE x \in ConcurrentCalls : x # c1
                serial == SerialOutcome(c1, c2)
            IN  /\ account_balance[SharedUser] = serial.account_balance
                /\ transactions = serial.rows

\* C10: when the concurrent handlers of one (team, week) have all finished,
\* the pool's total_collected is the sum of the handled payments and its
\* weekly_pool_amount, season_pot_contribution and company_fee are 80%, 10%
\* and 10% of that sum.
C10_NoPoolAdditionLost ==
    (\A c \in PaymentCalls : inflight[c].pc = "done") =>
        LET k == <<PaymentTeam, PaymentWeek>>
        IN  /\ k \in DOMAIN pools
            /\ pools[k].total_collected = handled[k]
            /\ pools[k].weekly_pool_amount * 100 = handled[k] * 80
            /\ pools[k].season_pot_contribution * 100 = handled[k] * 10
            /\ pools[k].company_fee * 100 = handled[k] * 10

\* The last call was deduct_from_balance for more than the balance held.
InsufficientDebit ==
    /\ last.op = "deduct_from_balance"
    /\ last.args.amount > last.account_balance[last.args.user]

\* C11: deduct_from_balance with an amount greater than the account_balance
\* returns None and leaves account_balance, the low-balance alert flag and
\* the AccountTransaction rows as they were.
C11_InsufficientDebitRefused ==
    InsufficientDebit =>
        /\ last.args.result = "None"
        /\ account_balance = last.account_balance
        /\ low_balance_alert_sent = last.low_balance_alert_sent
        /\ transactions = last.transactions

\* A debit is refused on an account that already holds rows.
C11_Witness ==
    /\ InsufficientDebit
    /\ RowsOf(last.args.user) # <<>>
    /\ last.account_balance[last.args.user] > 0

\* The Pick rows of one user and team in a week.
PicksOf(u, t, w) == {p \in picks : p.user = u /\ p.team = t /\ p.week = w}

\* C14: get_perfect_pickers returns a (user, team) for a week if and only if
\* the user has exactly 4 picks for the team in the week and every one of
\* them earned its point; 4 picks with 3 hits, or 3 picks all hit, do not win.
C14_PerfectWeekDetection ==
    last.op \in {"winners", "rollover"} =>
        \A u \in Users, t \in Teams :
            <<u, t>> \in last.args.perfect <=>
                /\ Cardinality(PicksOf(u, t, last.args.week)) = 4
                /\ \A p \in PicksOf(u, t, last.args.week) : p.points_earned = 1

\* A week is settled in which one member has 4 picks and 3 hits and another
\* has 3 picks, all hit, and neither is returned.
C14_Witness ==
    /\ last.op = "rollover"
    /\ \E m \in TeamMember :
          /\ Cardinality(PicksOf(m[1], m[2], last.args.week)) = 4
          /\ SumPoints(PicksOf(m[1], m[2], last.args.week)) = 3
          /\ m \notin last.args.perfect
    /\ \E m \in TeamMember :
          /\ Cardinality(PicksOf(m[1], m[2], last.args.week)) = 3
          /\ SumPoints(PicksOf(m[1], m[2], last.args.week)) = 3
          /\ m \notin last.args.perfect

\* The pool row a payment was added to, as it was before: the row held, or
\* the defaults of the row created for it.
PoolBeforePayment ==
    LET k == <<last.args.team, last.args.week>>
    IN  IF k \in DOMAIN last.pools THEN last.pools[k] ELSE WeeklyPrizePool

\* C18: handling one completed payment of amount A adds A to the pool's
\* total_collected and 0.80*A, 0.10*A and 0.10*A to weekly_pool_amount,
\* season_pot_contribution and company_fee; the three additions sum to A to
\* within one cent.
C18_EightyTenTenSplit ==
    last.op = "payment" =>
        LET k == <<last.args.team, last.args.week>>
            A == payments[<<last.args.user, last.args.team, last.args.week>>].amount
            was == PoolBeforePayment
            weekly == pools[k].weekly_pool_amount - was.weekly_pool_amount
            season == pools[k].season_pot_contribution
                      - was.season_pot_contribution
            fee    == pools[k].company_fee - was.company_fee
        IN  /\ pools[k].total_collected - was.total_collected = A
            /\ weekly * 100 = 80 * A
            /\ season * 100 = 10 * A
            /\ fee * 100 = 10 * A
            /\ weekly + season + fee - A \in {-1, 0, 1}

\* A payment is added to a pool that already holds money.
C18_Witness ==
    /\ last.op = "payment"
    /\ <<last.args.team, last.args.week>> \in DOMAIN last.pools
    /\ PoolBeforePayment.total_collected > 0

(***************************************************************************)
(* Properties of result ingestion.                                         *)
(***************************************************************************)
\* The last operation was an ingestion run that met no fault.
CleanFetch == last.op = "fetch_mlb_results" /\ last.args.clean

\* The games of the schedule the last ingestion run was given.
GamesOf(w) == {schedule[w][i] : i \in 1..Len(schedule[w])}

\* C13: running the ingestion of a week a second time against the same
\* provider data leaves every WeeklyResult (stat_value, achieved) as the
\* first run left it.
C13_IngestionIdempotent ==
    (CleanFetch /\ last.args.repeat) =>
        \A k \in DOMAIN last.weekly_results :
            /\ weekly_results[k].stat_value = last.weekly_results[k].stat_value
            /\ weekly_results[k].achieved = last.weekly_results[k].achieved

RECURSIVE LineSum(_, _, _, _)
\* The stat of one player in one category over box score lines i and on.
LineSum(lines, player, field, i) ==
    IF i > Len(lines) THEN 0
    ELSE (IF lines[i].personId = player THEN lines[i][field] ELSE 0)
         + LineSum(lines, player, field, i + 1)

\* The stat value one game gives a player in a category.
PerGameStat(g, player, category) ==
    CASE category = "2H" -> LineSum(Games[g].batting, player, "h", 1)
      [] category = "HR" -> LineSum(Games[g].batting, player, "hr", 1)
      [] category = "S"  -> LineSum(Games[g].pitchers, player, "sv", 1)
      [] category = "SWP" ->
            IF \E i \in 1..Len(Games[g].pitchers) :
                  /\ Games[g].pitchers[i].personId = player
                  /\ Games[g].pitchers[i].note = "W"
                  /\ Games[g].pitchers[i].battingOrder = "1"
            THEN 1 ELSE 0

RECURSIVE StatSum(_, _, _)
\* The sum of the per-game stat values over a set of games.
StatSum(games, player, category) ==
    IF games = {} THEN 0
    ELSE LET g == CHOOSE x \in games : TRUE
         IN  PerGameStat(g, player, category)
             + StatSum(games \ {g}, player, category)

\* The minimum a category asks for.
Required(category) == IF category = "2H" THEN 2 ELSE 1

\* C15: after an ingestion run every WeeklyResult of the week holds the sum
\* of the per-game stat values of its player over the completed games of the
\* date, and achieved is evaluated on that sum.
C15_ResultAggregation ==
    CleanFetch =>
        \A k \in DOMAIN weekly_results :
            k[1] = last.args.week =>
                LET total == StatSum({g \in GamesOf(k[1]) :
                                         Games[g].status = "Final"},
                                     k[2], k[3])
                IN  /\ weekly_results[k].stat_value = total
                    /\ weekly_results[k].achieved = (total >= Required(k[3]))

\* A game whose stats count: played, not game 2 of a doubleheader, not a
\* makeup game.
ValidGame(g) ==
    /\ Games[g].status \notin {"Postponed", "Cancelled", "Suspended"}
    /\ Games[g].game_number # 2
    /\ ~Games[g].rescheduled_from

\* The games that have stats in the ingested results.
IngestedGames ==
    UNION {{weekly_results[k].game_id[i] :
               i \in 1..Len(weekly_results[k].game_id)}
           : k \in DOMAIN weekly_results}

\* C16: ingested results hold stats only from games that are not postponed,
\* cancelled or suspended, not game 2 of a doubleheader and not makeup
\* games, in the results the commands ingest and in the games version 2 of
\* the service selects.
C16_OnlyValidGames ==
    last.op = "fetch_mlb_results" =>
        /\ \A g \in valid_games(schedule[last.args.week]) : ValidGame(g)
        /\ \A g \in IngestedGames : ValidGame(g)

\* The rows a completed game must have left: one for each known batter with
\* a hit and one for each known pitcher.
Ingested(g, w) ==
    /\ \A i \in 1..Len(Games[g].batting) :
          LET line == Games[g].batting[i]
          IN  (line.personId \in MLBPlayer /\ line.h > 0) =>
                 /\ <<w, line.personId, "2H">> \in DOMAIN weekly_results
                 /\ \E j \in 1..Len(weekly_results[<<w, line.personId, "2H">>].game_id) :
                       weekly_results[<<w, line.personId, "2H">>].game_id[j] = g
    /\ \A i \in 1..Len(Games[g].pitchers) :
          LET line == Games[g].pitchers[i]
          IN  line.personId \in MLBPlayer =>
                 /\ <<w, line.personId, "S">> \in DOMAIN weekly_results
                 /\ \E j \in 1..Len(weekly_results[<<w, line.personId, "S">>].game_id) :
                       weekly_results[<<w, line.personId, "S">>].game_id[j] = g

\* The completed games of the last run that met a fault.
FaultyGames ==
    {g \in GamesOf(last.args.week) :
        Games[g].status = "Final" /\ last.args.faults[g] # "none"}

\* C17: when one game fails, fetch_saturday_results still processes every
\* other game of the date, records the failure in the errors it returns and
\* returns normally; when the game list cannot be retrieved nothing is
\* processed and the one error is returned.
C17_CollectAndContinue ==
    last.op = "fetch_mlb_results" =>
        /\ ~last.args.raised
        /\ IF last.args.schedule_fails
           THEN /\ weekly_results = last.weekly_results
                /\ Len(last.args.errors) = 1
           ELSE /\ {last.args.errors[i] : i \in 1..Len(last.args.errors)}
                      = FaultyGames
                /\ Len(last.args.errors) = Cardinality(FaultyGames)
                /\ \A g \in GamesOf(last.args.week) :
                      (Games[g].status = "Final" /\ g \notin FaultyGames) =>
                          Ingested(g, last.args.week)

\* A game fails and a game later in the schedule is still ingested.
C17_Witness ==
    /\ last.op = "fetch_mlb_results"
    /\ ~last.args.schedule_fails
    /\ \E i, j \in 1..Len(schedule[last.args.week]) :
          /\ i < j
          /\ schedule[last.args.week][i] \in FaultyGames
          /\ Games[schedule[last.args.week][j]].status = "Final"
          /\ schedule[last.args.week][j] \notin FaultyGames
          /\ Ingested(schedule[last.args.week][j], last.args.week)

(***************************************************************************)
(* Properties of the settlement commands.                                  *)
(***************************************************************************)
\* C12  Idempotent scoring: when score_week scores a week again and no
\* ingestion touched the week's WeeklyResult rows since it was last scored,
\* every Pick has the result_status and points_earned it had before the
\* second run.
C12_IdempotentScoring ==
    (last.op = "score" /\ last.args.rescore) => picks = last.picks

\* A week with results is scored a second time and holds a hit worth one
\* point.
C12_Witness ==
    /\ last.op = "score"
    /\ last.args.rescore
    /\ weekly_results # <<>>
    /\ \E p \in picks : /\ p.week = last.args.week
                        /\ p.result_status = "hit"
                        /\ p.points_earned = 1

\* C19  Dry run persists nothing: after score_week, score_week_auto or
\* fetch_mlb_results was started with --dry-run, the WeeklyResult, Pick,
\* WeeklyPrizePool, UserStanding and TeamStanding rows and every
\* Week.is_completed are as they were when the command started.
C19_DryRunPersistsNothing ==
    (/\ last.op \in {"score_week", "score_week_auto", "fetch_mlb_results"}
     /\ last.args.dry_run)
    => /\ weekly_results = last.weekly_results
       /\ picks = last.picks
       /\ pools = last.pools
       /\ standings = last.standings
       /\ team_standings = last.team_standings
       /\ \A w \in WeekIds : weeks[w].is_completed = last.weeks[w].is_completed

\* The stages that ran for week w include these four, in this order.
RanInOrder(w, first, second, third, fourth) ==
    \E i, j, k, l \in DOMAIN stages :
        /\ i < j /\ j < k /\ k < l
        /\ stages[i] = <<first, w>>
        /\ stages[j] = <<second, w>>
        /\ stages[k] = <<third, w>>
        /\ stages[l] = <<fourth, w>>

\* C20  Settlement ordering: a week marked is_completed has had ingestion,
\* scoring, winner determination and the standings update run for it, in
\* that order; and a week that was opened for picks by a settlement run
\* follows a week marked is_completed.
C20_SettlementOrdering ==
    \A w \in WeekIds :
        /\ weeks[w].is_completed =>
              RanInOrder(w, "ingest", "score", "winners", "standings")
        /\ (w > 1 /\ weeks[w].is_active) => weeks[w - 1].is_completed

C22_StandingsRecomputationStable ==
    (last.op = "update_standings" /\ last.args.repeat)
    => /\ standings = last.standings
       /\ team_standings = last.team_standings

\* C23  Derived standing fields: in every UserStanding row, whether written
\* by the winner service or by the standings rebuild, net_profit is
\* total_winnings - total_paid and accuracy_percentage is
\* total_picks_hit / total_picks_made * 100 to the stored two decimals
\* (0 when total_picks_made is 0).
C23_DerivedStandingFields ==
    \A k \in DOMAIN standings :
        /\ standings[k].net_profit =
              standings[k].total_winnings - standings[k].total_paid
        /\ standings[k].accuracy_percentage =
              IF standings[k].total_picks_made = 0 THEN 0
              ELSE Quantize(standings[k].total_picks_hit * 10000,
                            standings[k].total_picks_made)

\* The winner service has just added winnings to a row that an earlier
\* rebuild had ranked.
C23_Witness ==
    /\ last.op = "winners"
    /\ \E k \in DOMAIN standings :
          /\ standings[k].team_rank > 0
          /\ standings[k].total_winnings > last.standings[k].total_winnings
          /\ standings[k].accuracy_percentage > 0

\* C24  Payout records: after winner determination found winners for a
\* week, a WeeklyPayout row exists for each (winning user, team, week) and
\* none exists for the week for anyone else.  (The table is keyed by
\* (user, team, week), so a row that exists is the only one.)
C24_PayoutRecords ==
    (last.op = "winners" /\ ~last.args.aborted)
    => LET w == last.args.week
       IN  {<<k[1], k[2]>> : k \in {x \in DOMAIN payouts : x[3] = w}}
             = last.args.perfect

(***************************************************************************)
(* Properties of credits and withdrawals.                                  *)
(***************************************************************************)
\* The last call appended exactly this one AccountTransaction row.
AppendedRow(type, status) ==
    LET u == last.args.user
    IN  transactions =
            Append(last.transactions,
                   [user |-> u, transaction_type |-> type,
                    amount |-> last.args.amount,
                    balance_before |-> last.account_balance[u],
                    balance_after |-> account_balance[u], status |-> status])

\* The accounts of the users the last call was not about are as before.
OthersUntouched ==
    \A v \in Users \ {last.args.user} :
        /\ account_balance[v] = last.account_balance[v]
        /\ low_balance_alert_sent[v] = last.low_balance_alert_sent[v]

\* C25  Credit: add_to_balance(user, amount) raises account_balance by
\* exactly amount, leaves low_balance_alert_sent False, and inserts exactly
\* one AccountTransaction, a completed deposit whose balance_before is the
\* balance before the call and whose balance_after is the new balance.
C25_Credit ==
    last.op = "add_to_balance"
    => LET u == last.args.user
       IN  /\ account_balance[u] = last.account_balance[u] + last.args.amount
           /\ ~low_balance_alert_sent[u]
           /\ AppendedRow("deposit", "completed")
           /\ OthersUntouched

\* A credit to an account whose low-balance alert had been sent.
C25_Witness ==
    /\ last.op = "add_to_balance"
    /\ last.low_balance_alert_sent[last.args.user]
    /\ last.account_balance[last.args.user] > 0

\* C26  Withdrawal: process_withdrawal with an amount below 5.00 or above
\* the balance is refused and leaves account_balance and the transaction log
\* unchanged; otherwise it deducts the amount and records exactly one
\* pending withdrawal transaction.
C26_Withdrawal ==
    last.op = "process_withdrawal"
    => LET u == last.args.user
       IN  IF last.args.amount < 500
              \/ last.args.amount > last.account_balance[u]
           THEN /\ last.args.result # "transaction"
                /\ account_balance = last.account_balance
                /\ transactions = last.transactions
           ELSE /\ last.args.result = "transaction"
                /\ account_balance[u] =
                      last.account_balance[u] - last.args.amount
                /\ AppendedRow("withdrawal", "pending")
                /\ OthersUntouched

\* A withdrawal of the whole balance succeeds and is recorded as pending.
C26_Witness ==
    /\ last.op = "process_withdrawal"
    /\ last.args.result = "transaction"
    /\ account_balance[last.args.user] = 0
    /\ transactions # <<>>
    /\ transactions[Len(transactions)].status = "pending"

(***************************************************************************)
(* Properties of the scoring rule and of unmapped players.                 *)
(***************************************************************************)
\* The picks the last scoring call scored.
ScoredByLast ==
    IF last.op = "score_week_service"
    THEN {p \in picks : p.week = last.args.week}
    ELSE {p \in picks : /\ p.user = last.args.user
                        /\ p.team = last.args.team
                        /\ p.week = last.args.week
                        /\ p.category = last.args.category}

\* C27  Scoring rule: a pick that score_single_pick has scored is a miss
\* with 0 points when no WeeklyResult exists for its (week, player,
\* category); when one exists it is a hit with 1 point if the result's
\* achieved flag is true and a miss with 0 points if it is false.
C27_ScoringRule ==
    last.op \in {"score_week_service", "rescore_pick"}
    => \A p \in ScoredByLast :
          LET key == <<p.week, p.player, p.category>>
              is_hit == /\ key \in DOMAIN weekly_results
                        /\ weekly_results[key].achieved
          IN  /\ p.result_status = IF is_hit THEN "hit" ELSE "miss"
              /\ p.points_earned = IF is_hit THEN 1 ELSE 0

\* The boxscore entries of the games the last ingestion processed whose
\* player has no MLBPlayer row.
UnmappedMet ==
    {line.personId :
        line \in UNION {{Games[g].batting[i] : i \in DOMAIN Games[g].batting}
                          \cup {Games[g].pitchers[i]
                                  : i \in DOMAIN Games[g].pitchers}
                        : g \in {x \in GamesOf(last.args.week) :
                                    /\ Games[x].status = "Final"
                                    /\ x \notin FaultyGames}}}
      \ MLBPlayer

\* C29  Unmapped players are reported: after an ingestion run, every
\* boxscore entry it met whose player id has no MLBPlayer row has an item
\* in the errors list the run returned.
C29_UnmappedPlayersReported ==
    (last.op = "fetch_mlb_results" /\ ~last.args.schedule_fails
       /\ ~last.args.raised)
    => \A player \in UnmappedMet :
          \E i \in DOMAIN last.args.errors : last.args.errors[i] = player

(***************************************************************************)
(* Properties of the standings totals and of a week without a prize pool.  *)
(***************************************************************************)
\* The completed payments of a user for a team and the weeks of a season.
CompletedPayments(u, t, season) ==
    {k \in DOMAIN payments :
        /\ k[1] = u /\ k[2] = t /\ Week[k[3]].season_year = season
        /\ payments[k].payment_status = "completed"}

\* The paid payouts of a user for a team and the weeks of a season.
PaidPayouts(u, t, season) ==
    {k \in DOMAIN payouts :
        /\ k[1] = u /\ k[2] = t /\ Week[k[3]].season_year = season
        /\ payouts[k].payout_status = "paid"}

\* C28  Standings financial totals: after the standings of a team are
\* updated for a season in which a member's payment for the team was
\* completed, the member's total_paid is the sum of their completed
\* WeeklyPayment amounts for the team and season, and total_winnings the sum
\* of their paid WeeklyPayout amounts.
C28_FinancialTotals ==
    last.op = "update_standings"
    => \A k \in DOMAIN standings :
          (/\ k[3] = Week[last.args.week].season_year
           /\ <<k[2], last.args.week>> \in DOMAIN pools
           /\ CompletedPayments(k[1], k[2], k[3]) # {})
          => /\ standings[k].total_paid =
                   SumAmounts(payments, CompletedPayments(k[1], k[2], k[3]))
             /\ standings[k].total_winnings =
                   SumAmounts(payouts, PaidPayouts(k[1], k[2], k[3]))

\* C30  Missing prize pool: when a week has perfect pickers and no
\* WeeklyPrizePool row, determine_weekly_winners reports the error
\* 'No prize pools found for this week', returns payout_per_winner = 0 and
\* total_paid_out = 0, creates no pool and changes no UserStanding or balance.
C30_MissingPrizePool ==
    (/\ last.op = "winners" /\ ~last.args.aborted
     /\ \A k \in DOMAIN last.pools : k[2] # last.args.week)
    => /\ last.args.returned.errors = <<"No prize pools found for this week">>
       /\ last.args.returned.payout_per_winner.num = 0
       /\ last.args.returned.total_paid_out.num = 0
       /\ pools = last.pools
       /\ standings = last.standings
       /\ account_balance = last.account_balance

\* A week with a perfect picker and no prize pool has been settled.
C30_Witness ==
    /\ last.op = "winners" /\ ~last.args.aborted
    /\ last.args.perfect # {}
    /\ \A k \in DOMAIN last.pools : k[2] # last.args.week

(***************************************************************************)
(* Properties of the scoring service called directly.                      *)
(***************************************************************************)
\* The pick of the same user, team, week and category as q.
SamePick(p, q) ==
    /\ p.user = q.user /\ p.team = q.team
    /\ p.week = q.week /\ p.category = q.category

\* C31  Reset: reset_week_scoring(week) sets every Pick of the week to
\* 'pending' with 0 points and no scored_at, returns the number of picks
\* reset, and leaves the picks of other weeks and every WeeklyResult, prize
\* pool and standing row unchanged; scoring the week again afterwards gives
\* each pick the state that scoring gave it before the reset.
C31_Reset ==
    /\ last.op = "reset_week_scoring"
       => /\ \A p \in picks :
                IF p.week = last.args.week
                THEN /\ p.result_status = "pending"
                     /\ p.points_earned = 0
                     /\ p.scored_at = "None"
                ELSE p \in last.picks
          /\ Cardinality(picks) = Cardinality(last.picks)
          /\ last.args.count =
                Cardinality({p \in last.picks : p.week = last.args.week})
          /\ weekly_results = last.weekly_results
          /\ pools = last.pools
          /\ standings = last.standings
          /\ team_standings = last.team_standings
    /\ last.op = "score_week_service"
       => \A q \in last.args.before_reset :
             q.result_status # "pending"
             => \E p \in picks : /\ SamePick(p, q)
                                 /\ p.result_status = q.result_status
                                 /\ p.points_earned = q.points_earned

\* A week that held a hit is scored again after its reset, while a pick of
\* another week stays scored.
C31_Witness ==
    /\ last.op = "score_week_service"
    /\ \E q \in last.args.before_reset : q.result_status = "hit"
    /\ \E p \in picks : p.week # last.args.week /\ p.scored_at = "now"

\* C40  Pick status and points agree: in every state reached by score_week,
\* rescore_pick and reset_week_scoring every Pick has 1 point exactly when it
\* is a 'hit' and 0 points when it is a 'miss' or 'pending', and the
\* picks_scored a scoring call reports is its hits plus its misses.
C40_StatusAndPointsAgree ==
    /\ \A p \in picks :
          /\ p.points_earned = 1 <=> p.result_status = "hit"
          /\ p.result_status \in {"miss", "pending"} => p.points_earned = 0
    /\ last.op = "score_week_service"
       => last.args.picks_scored = last.args.hits + last.args.misses

\* A scoring call has reported both a hit and a miss, and a pick is pending.
C40_Witness ==
    /\ last.op = "score_week_service"
    /\ last.args.hits > 0 /\ last.args.misses > 0
    /\ \E p \in picks : p.result_status = "pending"

(***************************************************************************)
(* Properties of the standings rebuild.                                    *)
(***************************************************************************)
\* The triple a comes strictly before the triple b in descending order.
LexGreater(a, b) ==
    \/ a[1] > b[1]
    \/ a[1] = b[1] /\ a[2] > b[2]
    \/ a[1] = b[1] /\ a[2] = b[2] /\ a[3] > b[3]

\* The teams that have a UserStanding row in season y.
RankedTeams(y) == {k[2] : k \in {x \in DOMAIN standings : x[3] = y}}

\* The UserStanding rows of team t in season y.
TeamRows(t, y) == {k \in DOMAIN standings : k[2] = t /\ k[3] = y}

\* C32  Team ranking: after a standings update, within each team the
\* team_rank values of its UserStanding rows of the season are exactly 1..n
\* without duplicates, a member with a strictly greater (total_points,
\* accuracy_percentage, perfect_weeks) has a strictly smaller rank, and the
\* TeamStanding ranks of the season are 1..m in the order of
\* (total_team_points, average_points_per_member) descending.
C32_TeamRanking ==
    last.op = "update_standings"
    => LET y == Week[last.args.week].season_year
           trows == {k \in DOMAIN team_standings : k[2] = y}
       IN  /\ \A t \in RankedTeams(y) :
                 /\ {standings[k].team_rank : k \in TeamRows(t, y)}
                       = 1..Cardinality(TeamRows(t, y))
                 /\ \A a, b \in TeamRows(t, y) :
                       LexGreater(
                          <<standings[a].total_points,
                            standings[a].accuracy_percentage,
                            standings[a].perfect_weeks>>,
                          <<standings[b].total_points,
                            standings[b].accuracy_percentage,
                            standings[b].perfect_weeks>>)
                       => standings[a].team_rank < standings[b].team_rank
           /\ {team_standings[k].rank : k \in trows} = 1..Cardinality(trows)
           /\ \A a, b \in trows :
                 LexGreater(<<team_standings[a].total_team_points,
                              team_standings[a].average_points_per_member, 0>>,
                            <<team_standings[b].total_team_points,
                              team_standings[b].average_points_per_member, 0>>)
                 => team_standings[a].rank < team_standings[b].rank

\* The UserStanding rows the last standings update rebuilt: those of the
\* active members of the teams with a prize pool in the week.
RebuiltRows ==
    {k \in DOMAIN standings :
        /\ k[3] = Week[last.args.week].season_year
        /\ <<k[2], last.args.week>> \in DOMAIN pools
        /\ member_status[<<k[1], k[2]>>] = "active"}

\* The completed weeks of season y, and whether user u has a hit for team t
\* in week w.
SeasonCompleted(y) ==
    {w \in WeekIds : Week[w].season_year = y /\ weeks[w].is_completed}
HasHit(u, t, w) ==
    \E p \in picks : /\ p.user = u /\ p.team = t /\ p.week = w
                     /\ p.result_status = "hit"

\* The weeks of the set done from a to b, by week number.
Stretch(done, a, b) ==
    {x \in done : /\ Week[a].week_number <= Week[x].week_number
                  /\ Week[x].week_number <= Week[b].week_number}

\* The number of weeks of done with a hit, back from the latest of them
\* without a gap.
StreakIn(u, t, done) ==
    Cardinality({w \in done :
                    \A x \in done :
                        Week[x].week_number >= Week[w].week_number
                        => HasHit(u, t, x)})

\* The length of the longest stretch of weeks of done with a hit in each.
BestIn(u, t, done) ==
    LET runs == {Cardinality(Stretch(done, ab[1], ab[2])) :
                   ab \in {x \in done \X done :
                             \A w \in Stretch(done, x[1], x[2]) :
                                 HasHit(u, t, w)}}
    IN  IF runs = {} THEN 0
        ELSE CHOOSE n \in runs : \A m \in runs : m <= n

\* C33  Current streak: the current_streak the standings rebuild writes is
\* the number of consecutive completed weeks of the season, back from the
\* latest completed week, in which the user has a pick with a hit for the
\* team, ending at the first completed week without picks or without a hit;
\* longest_streak is the longest such run over the completed weeks.
C33_Streaks ==
    last.op = "update_standings"
    => \A k \in RebuiltRows :
          /\ standings[k].current_streak =
                StreakIn(k[1], k[2], SeasonCompleted(k[3]))
          /\ standings[k].longest_streak =
                BestIn(k[1], k[2], SeasonCompleted(k[3]))

\* A rebuild has written a current streak of two weeks, and another has
\* written a current streak of zero under a longest streak of one.
C33_Witness ==
    /\ last.op = "update_standings"
    /\ \E k \in RebuiltRows : standings[k].current_streak = 2
    /\ \E k \in RebuiltRows : /\ standings[k].current_streak = 0
                              /\ standings[k].longest_streak = 1

\* The TeamStanding rows the last standings update rebuilt.
RebuiltTeams ==
    {k \in DOMAIN team_standings :
        /\ k[2] = Week[last.args.week].season_year
        /\ <<k[1], last.args.week>> \in DOMAIN pools}

RECURSIVE PointsOf(_)
\* The sum of total_points over the given UserStanding rows.
PointsOf(rows) ==
    IF rows = {} THEN 0
    ELSE LET k == CHOOSE x \in rows : TRUE
         IN  standings[k].total_points + PointsOf(rows \ {k})

\* The number of active members of team t.
ActiveCount(t) ==
    Cardinality({m \in DOMAIN member_status :
                    m[2] = t /\ member_status[m] = "active"})

\* C34  Team aggregates: after a standings update total_team_points is the
\* sum of total_points over the team's members and
\* average_points_per_member is that sum divided by the number of active
\* members, also when the team has a UserStanding row of a member who is no
\* longer active.
C34_TeamAggregates ==
    last.op = "update_standings"
    => \A k \in RebuiltTeams :
          LET total == PointsOf(TeamRows(k[1], k[2]))
          IN  /\ team_standings[k].total_team_points = total
              /\ ActiveCount(k[1]) > 0
                 => team_standings[k].average_points_per_member =
                       Quantize(total * 100, ActiveCount(k[1]))

(***************************************************************************)
(* Properties of the low-balance alert, payment intake and the balance.    *)
(***************************************************************************)
\* C35  Low-balance alert flag: a successful deduct_from_balance sets
\* low_balance_alert_sent exactly when the resulting balance is below
\* low_balance_threshold and the flag was not set; a flag that is set stays
\* set through later debits until add_to_balance clears it, and a debit
\* that leaves the balance at or above the threshold leaves the flag as it
\* was.
C35_LowBalanceAlert ==
    /\ (last.op = "deduct_from_balance" /\ last.args.result = "transaction")
       => LET u == last.args.user
              was == last.low_balance_alert_sent[u]
              now == low_balance_alert_sent[u]
          IN  /\ (now # was) <=> (account_balance[u] < low_balance_threshold /\ ~was)
              /\ was => now
              /\ account_balance[u] >= low_balance_threshold => now = was
    /\ last.op = "add_to_balance"
       => ~low_balance_alert_sent[last.args.user]
    /\ last.op \in BalanceOps
       => \A u \in Users \ {last.args.user} :
             low_balance_alert_sent[u] = last.low_balance_alert_sent[u]

\* A debit leaves an account below the threshold whose flag was set by an
\* earlier debit.
C35_Witness ==
    /\ last.op = "deduct_from_balance"
    /\ last.args.result = "transaction"
    /\ last.low_balance_alert_sent[last.args.user]
    /\ low_balance_alert_sent[last.args.user]
    /\ account_balance[last.args.user] < low_balance_threshold

\* The completed WeeklyPayment rows of a team and week, and of a user.
CompletedFor(t, w) ==
    {k \in DOMAIN payments :
        k[2] = t /\ k[3] = w /\ payments[k].payment_status = "completed"}
CompletedOf(u) ==
    {k \in DOMAIN payments :
        k[1] = u /\ payments[k].payment_status = "completed"}

\* C36  Payment intake counts each payment once: after any sequence of
\* payment-success events, the same event delivered twice included, every
\* pool's total_collected is the sum of the amounts of the completed
\* WeeklyPayment rows of its team and week, and every user's
\* total_lifetime_paid is the sum of their completed payments.
C36_PaymentCountedOnce ==
    /\ \A k \in DOMAIN pools :
          pools[k].total_collected =
              SumAmounts(payments, CompletedFor(k[1], k[2]))
    /\ \A u \in Users :
          total_lifetime_paid[u] = SumAmounts(payments, CompletedOf(u))

\* C37  Non-negative balance: starting from a non-negative account_balance,
\* no sequence or interleaving of add_to_balance, deduct_from_balance and
\* process_withdrawal calls with positive amounts on one user makes the
\* account_balance negative.
C37_BalanceNeverNegative ==
    \A u \in Users : account_balance[u] >= 0

\* Two overlapping debits have both committed, each computed from the
\* balance the account started with, and the balance is that of the second
\* to commit.
C37_Witness ==
    /\ \A c \in DOMAIN inflight : inflight[c].pc = "done"
    /\ Len(transactions) = 2
    /\ \A i \in 1..2 :
          /\ transactions[i].transaction_type \in {"payment", "withdrawal"}
          /\ transactions[i].balance_before = opening_balance["u1"]
    /\ account_balance["u1"] = transactions[2].balance_after

(***************************************************************************)
(* Properties of the standings written by a settlement.                    *)
(***************************************************************************)
RECURSIVE ParticipationsOf(_)
\* The sum of weeks_participated over the given UserStanding rows.
ParticipationsOf(rows) ==
    IF rows = {} THEN 0
    ELSE LET k == CHOOSE x \in rows : TRUE
         IN  standings[k].weeks_participated + ParticipationsOf(rows \ {k})

\* C38  Settled week counts in its own standings: when score_week runs the
\* full settlement of week W, the standings of that run take W as a
\* completed week: W's hits count in current_streak and longest_streak, and
\* W is counted in the denominator of the participation rate.
C38_SettledWeekCounts ==
    last.op = "standings"
    => LET W == last.args.week
           done == SeasonCompleted(Week[W].season_year) \cup {W}
       IN  /\ \A k \in RebuiltRows :
                 /\ standings[k].current_streak = StreakIn(k[1], k[2], done)
                 /\ standings[k].longest_streak = BestIn(k[1], k[2], done)
           /\ \A k \in RebuiltTeams :
                 ActiveCount(k[1]) > 0
                 => team_standings[k].participation_rate =
                       Quantize(ParticipationsOf(TeamRows(k[1], k[2])) * 10000,
                                Cardinality(done) * ActiveCount(k[1]))

\* C39  Participation rate is a percentage: after any standings update
\* every TeamStanding.participation_rate lies between 0 and 100.
C39_ParticipationIsPercentage ==
    last.op = "update_standings"
    => \A k \in DOMAIN team_standings :
          /\ team_standings[k].participation_rate >= 0
          /\ team_standings[k].participation_rate <= 10000

=============================================================================
